---- MODULE Spec2Model ----
(***************************************************************************)
(* State-machine model of the game resolution engine of the bot:           *)
(*   PhasesCog       (src/bot/cogs/phases.py)         phase clock          *)
(*   ActionQueueCog  (src/bot/cogs/action_queue.py)   abilities, pending   *)
(*                   queue, role/visit blocks, per-RC visit pool           *)
(*   VisitCountCog   (src/botV2/cogs/visit_count.py)  per-player visits    *)
(*   KnocksCog       (src/bot/cogs/knocks.py)         knock tickets        *)
(*                                                                         *)
(* Strings that the code parses are modelled structurally:                 *)
(*   an ability key is <<prefix, n>>: <<"", 1>> is "1", <<"A", 1>> is "A1" *)
(*   a phase/until token is <<form, word, n>>:                             *)
(*       <<"short", "n", 2>>   is "n2"                                     *)
(*       <<"long", "night", 2>> is "Night 2" / "night 2"                   *)
(*       <<"bare", "pregame", 0>> is "pregame"                             *)
(*       <<"forever", "", 0>>  is "forever"                                *)
(*       <<"junk", "", 0>>     is any text no pattern matches              *)
(*   a visit count string is <<n, suffix>>: <<2, "n">> is "2n"; n = -1     *)
(*       stands for a string without leading digits                        *)
(* An Optional[int] is a sequence: <<>> is None, <<e>> is the integer e.   *)
(***************************************************************************)
EXTENDS Integers, Sequences, FiniteSets, TLC

VARIABLES
    phases,             \* PhasesCog.phases: guild -> [phase, count]
    counts,             \* VisitCountCog.data["counts"]: <<guild, member>> -> kind -> int
    income,             \* VisitCountCog.data["income"]: <<guild, member>> -> incomes
    visit_phase,        \* VisitCountCog.data["phase"] as read by get_phase
    actions,            \* ActionQueueCog.actions: action_id -> status
    views,              \* action_id -> the messages whose buttons are attached
    next_action_id,     \* ActionQueueCog.next_action_id
    abilities,          \* ActionQueueCog.abilities: channel -> key -> category
    teams,              \* ActionQueueCog.teams: channel -> team
    pending_abilities,  \* ActionQueueCog.pending_abilities (list of dicts)
    current_phase,      \* ActionQueueCog.current_phase
    visits,             \* ActionQueueCog.visits: channel -> type -> count string
    roleblocks,         \* ActionQueueCog.roleblocks
    processed,          \* process_os: list built by its latest run
    skipped,            \* process_os: list of (entry, reason) of its latest run
    skip_log,           \* oids ever reported skipped for a block (history)
    clock,              \* datetime.utcnow() as seen by the latest reader
    pending,            \* KnocksCog.pending: narration message id -> info
    next_msg_id,        \* id the platform gives the next narration message
    manor,              \* member -> manor channel the member can view
    tasks,              \* running on_message handlers of KnocksCog
    sent,               \* messages sent by KnocksCog about each ticket (history)
    reply               \* what the latest command answered

vars == <<phases, counts, income, visit_phase, actions, views, next_action_id,
          abilities, teams, pending_abilities, current_phase, visits,
          roleblocks, processed, skipped, skip_log, clock, pending,
          next_msg_id, manor, tasks, sent, reply>>

phaseVars == <<phases, visit_phase, current_phase>>
visitVars == <<counts, income>>
queueVars == <<actions, views, next_action_id, pending_abilities, processed,
               skipped, skip_log, clock>>
setupVars == <<abilities, teams>>
knockVars == <<pending, next_msg_id, manor, tasks, sent>>

----------------------------------------------------------------------------
(* Bounds of the model *)

MaxActions == 3     \* .use commands accepted in one run
MaxTime == 1        \* largest value of the wall clock
MaxCycle == 2       \* largest Day/Night number the clock reaches
MaxVisits == 2      \* visits of all kinds a player may hold after a grant
MaxKnocks == 2      \* narration messages (tickets) posted in one run
MaxReplies == 2     \* replies to narration messages in one run
MaxQueue == 2       \* pending entries of a restored queue

(* Domains *)

Guilds == {"g1", "g2"}
Channels == {"c1", "c2"}
Members == {"m1", "m2"}
Manors == {"h1", "h2"}
Nowhere == "none"           \* the member can view no manor

None == <<>>
Some(e) == <<e>>

NoTeam == "<none>"          \* teams.get(channel) is None

----------------------------------------------------------------------------
(* Generic helpers on finite functions and sequences *)

Drop(f, k) == [x \in DOMAIN f \ {k} |-> f[x]]

Put(f, k, v) == [x \in DOMAIN f \cup {k} |-> IF x = k THEN v ELSE f[x]]

Empty == [x \in {} |-> {}]

Range(s) == {s[i] : i \in DOMAIN s}

----------------------------------------------------------------------------
(* PhasesCog *)

PHASE_ORDER == <<"pregame", "night", "day", "postgame">>

DayNight == {"day", "night"}

\* _get_phase_for_guild: "Day 2" / "Night 1" for day and night, else the token
_get_phase_for_guild(ph, g) ==
    IF ph[g].phase \in DayNight
    THEN <<"long", ph[g].phase, ph[g].count>>
    ELSE <<"bare", ph[g].phase, 0>>

\* a counter that stays where it is on the way from night to day
_set_phase_for_guild_NeverCounts(old, phase) ==
    [phase |-> phase,
     count |-> IF phase \notin DayNight THEN 1
               ELSE IF old.phase \notin DayNight THEN 1
               ELSE old.count]

\* a counter that goes up on every change between day and night
_set_phase_for_guild_EveryChange(old, phase) ==
    [phase |-> phase,
     count |-> IF phase \notin DayNight THEN 1
               ELSE IF old.phase \notin DayNight THEN 1
               ELSE IF old.phase # phase THEN old.count + 1
               ELSE old.count]

\* _set_phase_for_guild: the record stored for `phase`, given the old record
_set_phase_for_guild(old, phase) ==
    [phase |-> phase,
     count |-> IF phase \notin DayNight THEN 1
               ELSE IF old.phase \notin DayNight THEN 1
               ELSE IF old.phase = "night" /\ phase = "day" THEN old.count + 1
               ELSE old.count]

\* a reset that also takes the token back to pregame
reset_phase_count_ToPregame(old) == [phase |-> "pregame", count |-> 1]

\* reset_phase_count
reset_phase_count(old) == [phase |-> old.phase, count |-> 1]

----------------------------------------------------------------------------
(* ActionQueueCog: phase tokens and epochs *)

StartsWithD(word) == word \in {"d", "day"}

\* an epoch that does not tell the night of a cycle from its day
EpochOf_Flat(word, num) == (num - 1) * 2

EpochOf(word, num) == (num - 1) * 2 + (IF StartsWithD(word) THEN 0 ELSE 1)

\* _phase_epoch: "Day 1" -> 0, "Night 1" -> 1, ...; also the short form
_phase_epoch(phase_str) ==
    IF phase_str[1] \in {"long", "short"}
    THEN Some(EpochOf(phase_str[2], phase_str[3]))
    ELSE None

\* _until_to_epoch: None for forever and for text no pattern matches
_until_to_epoch(token) ==
    IF token[1] = "forever" THEN None
    ELSE IF token[1] = "short" THEN Some(EpochOf(token[2], token[3]))
    ELSE IF token[1] = "long" THEN Some(EpochOf(token[2], token[3]))
    ELSE None

Forever == <<"forever", "", 0>>
Junk == <<"junk", "", 0>>
NoUntil == <<"absent", "", 0>>   \* the dict has no "visit_block" entry

----------------------------------------------------------------------------
(* ActionQueueCog: roleblocks *)

\* f"{rc.id}:{key}" and str(rc.id)
RbKey(ch, key) == <<ch, key[1], key[2]>>
ChKey(ch) == <<ch, "#", 0>>

\* a test that takes the dict left behind by .unvisitblock for a block
HasVisitBlock_Stale(rb, ch) == ChKey(ch) \in DOMAIN rb

\* entry.get("visit_block") is truthy
HasVisitBlock(rb, ch) ==
    ChKey(ch) \in DOMAIN rb /\ rb[ChKey(ch)].until # NoUntil

\* vb.get("boundary", "end"): .visitblock stores no boundary
BoundaryOf(entry) == IF entry.boundary = "unset" THEN "end" ELSE entry.boundary

\* a sweep that takes "forever" for an expiry that is always due
Expired_ForeverIsDue(entry, new_epoch) ==
    /\ entry.until # NoUntil
    /\ \/ entry.until = Forever
       \/ /\ _until_to_epoch(entry.until) # None
          /\ LET until_epoch == _until_to_epoch(entry.until)[1]
                 boundary == BoundaryOf(entry)
             IN  \/ boundary = "end" /\ new_epoch > until_epoch
                 \/ boundary = "beginning" /\ new_epoch >= until_epoch

\* a sweep that also removes an end-boundary block at its own epoch
Expired_AtOwnEpoch(entry, new_epoch) ==
    /\ entry.until # NoUntil
    /\ entry.until # Forever
    /\ _until_to_epoch(entry.until) # None
    /\ new_epoch >= _until_to_epoch(entry.until)[1]

\* the expiry test of process_phase_change for one stored entry
Expired(entry, new_epoch) ==
    /\ entry.until # NoUntil
    /\ entry.until # Forever
    /\ _until_to_epoch(entry.until) # None
    /\ LET until_epoch == _until_to_epoch(entry.until)[1]
           boundary == BoundaryOf(entry)
       IN  \/ boundary = "end" /\ new_epoch > until_epoch
           \/ boundary = "beginning" /\ new_epoch >= until_epoch

\* a sweep that removes one due block and leaves the others for later
process_phase_change_OneAtATime(rb, new_phase) ==
    IF _phase_epoch(new_phase) = None THEN rb
    ELSE LET new_epoch == _phase_epoch(new_phase)[1]
             due == {k \in DOMAIN rb : Expired(rb[k], new_epoch)}
         IN  IF due = {} THEN rb
             ELSE LET first == CHOOSE k \in due : TRUE
                  IN  [k \in DOMAIN rb \ {first} |-> rb[k]]

\* a sweep that gives up when it meets an expiry it cannot parse
process_phase_change_GivesUp(rb, new_phase) ==
    IF _phase_epoch(new_phase) = None THEN rb
    ELSE IF \E k \in DOMAIN rb :
               /\ rb[k].until \notin {NoUntil, Forever}
               /\ _until_to_epoch(rb[k].until) = None
    THEN rb
    ELSE LET new_epoch == _phase_epoch(new_phase)[1]
             keep == {k \in DOMAIN rb : ~Expired(rb[k], new_epoch)}
         IN  [k \in keep |-> rb[k]]

\* process_phase_change: the roleblocks left after the sweep for new_phase
process_phase_change(rb, new_phase) ==
    IF _phase_epoch(new_phase) = None THEN rb
    ELSE LET new_epoch == _phase_epoch(new_phase)[1]
             keep == {k \in DOMAIN rb : ~Expired(rb[k], new_epoch)}
         IN  [k \in keep |-> rb[k]]

----------------------------------------------------------------------------
(* ActionQueueCog: ability keys *)

NoKey == <<"-", 0>>      \* the description does not start with an ability token

\* the other spelling of the same number: "1" <-> "A1"
AltForm(key) == IF key[1] = "A" THEN <<"", key[2]>> ELSE <<"A", key[2]>>

NotFound == <<"?", 0>>

\* .use: look the typed key up, then its alternate form; the result is the
\* key as stored for the channel, or NotFound
LookupAbility(channel_abilities, ability_key) ==
    IF ability_key \in DOMAIN channel_abilities THEN ability_key
    ELSE IF AltForm(ability_key) \in DOMAIN channel_abilities
         THEN AltForm(ability_key)
         ELSE NotFound

\* self.abilities.get(channel, {})
AbilitiesOf(ab, ch) == IF ch \in DOMAIN ab THEN ab[ch] ELSE Empty

\* self.teams.get(channel)
TeamOf(tm, ch) == IF ch \in DOMAIN tm THEN tm[ch] ELSE NoTeam

----------------------------------------------------------------------------
(* ActionQueueCog: resolution order *)

\* priority.get(category, 99)
priority(category) ==
    CASE category = "Manipulation" -> 1
      [] category = "Blocking" -> 2
      [] category = "Protection" -> 3
      [] category = "Curing" -> 4
      [] category = "Lethal" -> 5
      [] category = "Other" -> 6
      [] category = "Transport" -> 7
      [] OTHER -> 99

\* str(category).lower() == "lethal"
IsLethal(category) == category \in {"Lethal", "lethal", "LETHAL"}

LethalTeamOrder == <<"sublime", "shadow", "dark", "neutral">>
OtherTeamOrder == <<"dark", "rk", "sublime", "neutral">>

\* team_order.index(team), 0-based, 99 on ValueError
TeamIndex(team_order, team) ==
    IF \E i \in DOMAIN team_order : team_order[i] = team
    THEN (CHOOSE i \in DOMAIN team_order : team_order[i] = team) - 1
    ELSE 99

\* (item.get("team") or "?").lower()
TeamText(team) == IF team = NoTeam THEN "?" ELSE team

sort_key(item) ==
    <<priority(item.category),
      TeamIndex(IF IsLethal(item.category) THEN LethalTeamOrder
                ELSE OtherTeamOrder, TeamText(item.team)),
      item.timestamp>>

\* a comparison that leaves the timestamps out
KeyLess_NoTime(a, b) ==
    \/ a[1] < b[1]
    \/ a[1] = b[1] /\ a[2] < b[2]

\* tuple comparison a < b
KeyLess(a, b) ==
    \/ a[1] < b[1]
    \/ a[1] = b[1] /\ a[2] < b[2]
    \/ a[1] = b[1] /\ a[2] = b[2] /\ a[3] < b[3]

\* x goes after every element whose key is not greater: a stable insertion
RECURSIVE InsertByKey(_, _)
InsertByKey(s, x) ==
    IF s = <<>> THEN <<x>>
    ELSE IF KeyLess(sort_key(x), sort_key(Head(s))) THEN <<x>> \o s
    ELSE <<Head(s)>> \o InsertByKey(Tail(s), x)

RECURSIVE SortInto(_, _)
SortInto(acc, rest) ==
    IF rest = <<>> THEN acc
    ELSE SortInto(InsertByKey(acc, Head(rest)), Tail(rest))

\* sorted(self.pending_abilities, key=sort_key): a stable sort
sorted(items) == SortInto(<<>>, items)

----------------------------------------------------------------------------
(* ActionQueueCog: the per-RC visit pool *)

VisitTypes == <<"regular", "stealth", "forced", "both">>

\* the first type of the preference order that the pool holds
FirstHeld(pool) ==
    LET held == {i \in DOMAIN VisitTypes : VisitTypes[i] \in DOMAIN pool}
    IN  VisitTypes[CHOOSE i \in held : \A j \in held : i <= j]

\* process_os, "consume a visit if available for this RC"
ConsumeVisit(vis, ch_id) ==
    IF ch_id \in DOMAIN vis /\ DOMAIN vis[ch_id] # {}
    THEN LET t == FirstHeld(vis[ch_id])
             val == vis[ch_id][t]
         IN  IF val[1] >= 0 /\ val[1] - 1 > 0
             THEN [vis EXCEPT ![ch_id][t] = <<val[1] - 1, val[2]>>]
             ELSE [vis EXCEPT ![ch_id] = Drop(@, t)]
    ELSE vis

----------------------------------------------------------------------------
(* ActionQueueCog: process_os *)

\* a loop body that skips an action whose RC holds no visit
ProcessOne_NeedsVisit(rb, st, p) ==
    IF RbKey(p.channel_id, p.ability) \in DOMAIN rb
    THEN [st EXCEPT !.skipped = Append(@, <<p, "ability_blocked">>)]
    ELSE IF HasVisitBlock(rb, p.channel_id)
    THEN [st EXCEPT !.skipped = Append(@, <<p, "visit_blocked">>)]
    ELSE IF ConsumeVisit(st.visits, p.channel_id) = st.visits
    THEN [st EXCEPT !.skipped = Append(@, <<p, "no_visits">>)]
    ELSE [visits |-> ConsumeVisit(st.visits, p.channel_id),
          processed |-> Append(st.processed, [p EXCEPT !.status = "processed"]),
          skipped |-> st.skipped]

\* a loop body that looks at the visit block before the ability block
ProcessOne_VisitFirst(rb, st, p) ==
    IF HasVisitBlock(rb, p.channel_id)
    THEN [st EXCEPT !.skipped = Append(@, <<p, "visit_blocked">>)]
    ELSE IF RbKey(p.channel_id, p.ability) \in DOMAIN rb
    THEN [st EXCEPT !.skipped = Append(@, <<p, "ability_blocked">>)]
    ELSE [visits |-> ConsumeVisit(st.visits, p.channel_id),
          processed |-> Append(st.processed, [p EXCEPT !.status = "processed"]),
          skipped |-> st.skipped]

\* a loop body that takes a visit of the RC for a skipped action too
ProcessOne_SkipCosts(rb, st, p) ==
    IF RbKey(p.channel_id, p.ability) \in DOMAIN rb
    THEN [visits |-> ConsumeVisit(st.visits, p.channel_id),
          processed |-> st.processed,
          skipped |-> Append(st.skipped, <<p, "ability_blocked">>)]
    ELSE IF HasVisitBlock(rb, p.channel_id)
    THEN [visits |-> ConsumeVisit(st.visits, p.channel_id),
          processed |-> st.processed,
          skipped |-> Append(st.skipped, <<p, "visit_blocked">>)]
    ELSE [visits |-> ConsumeVisit(st.visits, p.channel_id),
          processed |-> Append(st.processed, [p EXCEPT !.status = "processed"]),
          skipped |-> st.skipped]

\* the body of the loop of process_os for one entry p of `ordered`
ProcessOne(rb, st, p) ==
    IF RbKey(p.channel_id, p.ability) \in DOMAIN rb
    THEN [st EXCEPT !.skipped = Append(@, <<p, "ability_blocked">>)]
    ELSE IF HasVisitBlock(rb, p.channel_id)
    THEN [st EXCEPT !.skipped = Append(@, <<p, "visit_blocked">>)]
    ELSE [visits |-> ConsumeVisit(st.visits, p.channel_id),
          processed |-> Append(st.processed, [p EXCEPT !.status = "processed"]),
          skipped |-> st.skipped]

\* a loop that a skipped entry ends
RECURSIVE RunCycle_StopsAtSkip(_, _, _)
RunCycle_StopsAtSkip(rb, st, ordered) ==
    IF ordered = <<>> THEN st
    ELSE IF ProcessOne(rb, st, Head(ordered)).skipped # st.skipped
    THEN ProcessOne(rb, st, Head(ordered))
    ELSE RunCycle_StopsAtSkip(rb, ProcessOne(rb, st, Head(ordered)), Tail(ordered))

\* "for p in ordered": the loop of process_os
RECURSIVE RunCycle(_, _, _)
RunCycle(rb, st, ordered) ==
    IF ordered = <<>> THEN st
    ELSE RunCycle(rb, ProcessOne(rb, st, Head(ordered)), Tail(ordered))

\* the entries of the queue with the status the loop left on them
Marked(queue, done) ==
    [i \in DOMAIN queue |->
        IF queue[i].oid \in done
        THEN [queue[i] EXCEPT !.status = "processed"]
        ELSE queue[i]]

RECURSIVE NotProcessed(_)
NotProcessed(queue) ==
    IF queue = <<>> THEN <<>>
    ELSE IF Head(queue).status # "processed"
         THEN <<Head(queue)>> \o NotProcessed(Tail(queue))
         ELSE NotProcessed(Tail(queue))

\* a cycle that leaves the whole queue in place
RemoveProcessed_None(queue, done) == queue

\* "remove processed entries"
RemoveProcessed(queue, done) == NotProcessed(Marked(queue, done))

Oids(entries) == {entries[i].oid : i \in DOMAIN entries}
SkippedOids(sk) == {sk[i][1].oid : i \in DOMAIN sk}

Say(msg, a, b) == [msg |-> msg, a |-> a, b |-> b]

\* .processos
process_os ==
    IF pending_abilities = <<>>
    THEN /\ reply' = Say("No pending abilities to process", 0, 0)
         /\ UNCHANGED <<phaseVars, visitVars, queueVars, setupVars, knockVars,
                        visits, roleblocks>>
    ELSE LET ordered == sorted(pending_abilities)
             res == RunCycle(roleblocks,
                             [visits |-> visits, processed |-> <<>>,
                              skipped |-> <<>>], ordered)
         IN  /\ visits' = res.visits
             /\ processed' = res.processed
             /\ skipped' = res.skipped
             /\ pending_abilities' =
                    RemoveProcessed(pending_abilities, Oids(res.processed))
             /\ skip_log' = skip_log \cup SkippedOids(res.skipped)
             /\ reply' = Say("Processed", Len(res.processed), Len(res.skipped))
             /\ UNCHANGED <<phaseVars, visitVars, setupVars, knockVars,
                            actions, views, next_action_id, clock,
                            roleblocks>>

----------------------------------------------------------------------------
(* ActionQueueCog: .use *)

\* the dict appended to pending_abilities; oid is the identity of the dict
PendingEntry(oid, ch, key, category, team, now, user) ==
    [oid |-> oid, channel_id |-> ch, ability |-> key, category |-> category,
     team |-> team, timestamp |-> now, status |-> "pending", user_id |-> user]

\* a .use that registers the tracked action before it looks the ability up
use_TrackedFirst(ch, user, typed, now) ==
    /\ next_action_id <= MaxActions
    /\ clock <= now
    /\ LET stored == LookupAbility(AbilitiesOf(abilities, ch), typed)
       IN  /\ clock' = now
           /\ actions' = Put(actions, next_action_id, "pending")
           /\ views' = Put(views, next_action_id, {"player", "admin"})
           /\ next_action_id' = next_action_id + 1
           /\ IF typed # NoKey /\ stored = NotFound
              THEN /\ reply' = Say("Ability not found for this RC", 0, 0)
                   /\ pending_abilities' = pending_abilities
              ELSE /\ reply' = Say("Action Started", next_action_id, 0)
                   /\ pending_abilities' =
                          IF typed = NoKey THEN pending_abilities
                          ELSE Append(pending_abilities,
                                   PendingEntry(next_action_id, ch, stored,
                                       AbilitiesOf(abilities, ch)[stored],
                                       TeamOf(teams, ch), now, user))
           /\ UNCHANGED <<phaseVars, visitVars, setupVars, knockVars,
                          visits, roleblocks, processed, skipped, skip_log>>

\* a .use that drops an action the same player has already queued for the
\* same RC and ability
use_Dedup(ch, user, typed, now) ==
    /\ next_action_id <= MaxActions
    /\ clock <= now
    /\ LET stored == LookupAbility(AbilitiesOf(abilities, ch), typed)
           queued == \E i \in DOMAIN pending_abilities :
                        /\ pending_abilities[i].channel_id = ch
                        /\ pending_abilities[i].ability = stored
                        /\ pending_abilities[i].user_id = user
       IN  IF typed # NoKey /\ stored = NotFound
           THEN /\ reply' = Say("Ability not found for this RC", 0, 0)
                /\ UNCHANGED <<phaseVars, visitVars, queueVars, setupVars,
                               knockVars, visits, roleblocks>>
           ELSE /\ clock' = now
                /\ pending_abilities' =
                       IF typed = NoKey \/ queued THEN pending_abilities
                       ELSE Append(pending_abilities,
                                PendingEntry(next_action_id, ch, stored,
                                    AbilitiesOf(abilities, ch)[stored],
                                    TeamOf(teams, ch), now, user))
                /\ actions' = Put(actions, next_action_id, "pending")
                /\ views' = Put(views, next_action_id, {"player", "admin"})
                /\ next_action_id' = next_action_id + 1
                /\ reply' = Say("Action Started", next_action_id, 0)
                /\ UNCHANGED <<phaseVars, visitVars, setupVars, knockVars,
                               visits, roleblocks, processed, skipped,
                               skip_log>>

\* .use <description> typed by `user` in RC `ch`; `typed` is the ability
\* token that starts the description (upper-cased), or NoKey; `now` is what
\* datetime.utcnow() returns
use(ch, user, typed, now) ==
    /\ next_action_id <= MaxActions
    /\ clock <= now
    /\ LET stored == LookupAbility(AbilitiesOf(abilities, ch), typed)
       IN  IF typed # NoKey /\ stored = NotFound
           THEN /\ reply' = Say("Ability not found for this RC", 0, 0)
                /\ UNCHANGED <<phaseVars, visitVars, queueVars, setupVars,
                               knockVars, visits, roleblocks>>
           ELSE /\ clock' = now
                /\ pending_abilities' =
                       IF typed = NoKey THEN pending_abilities
                       ELSE Append(pending_abilities,
                                PendingEntry(next_action_id, ch, stored,
                                    AbilitiesOf(abilities, ch)[stored],
                                    TeamOf(teams, ch), now, user))
                /\ actions' = Put(actions, next_action_id, "pending")
                /\ views' = Put(views, next_action_id, {"player", "admin"})
                /\ next_action_id' = next_action_id + 1
                /\ reply' = Say("Action Started", next_action_id, 0)
                /\ UNCHANGED <<phaseVars, visitVars, setupVars, knockVars,
                               visits, roleblocks, processed, skipped,
                               skip_log>>

----------------------------------------------------------------------------
(* ActionQueueCog: the buttons of a tracked action *)

\* PlayerActionView.cancel_action, up to its first await: a click on Cancel
\* under the message in the RC; by_initiator tells whether the user who
\* clicked is the one who started the action
player_cancel_action(aid, by_initiator) ==
    /\ aid \in DOMAIN actions
    /\ "player" \in views[aid]
    /\ IF ~by_initiator
       THEN /\ actions' = actions
            /\ reply' = Say("Only the user who initiated this action can cancel it", aid, 0)
       ELSE /\ actions' = [actions EXCEPT ![aid] = "cancelled"]
            /\ reply' = Say("cancelled", aid, 0)
    /\ UNCHANGED <<phaseVars, visitVars, views, next_action_id,
                   pending_abilities, processed, skipped, skip_log, clock,
                   setupVars, knockVars, visits, roleblocks>>

\* AdminActionView.mark_done, up to its first await: a click on Done under
\* the message in log-actions
mark_done(aid) ==
    /\ aid \in DOMAIN actions
    /\ "admin" \in views[aid]
    /\ IF actions[aid] \in {"done", "cancelled"}
       THEN /\ actions' = actions
            /\ reply' = Say("This action is already " \o actions[aid], aid, 0)
       ELSE /\ actions' = [actions EXCEPT ![aid] = "done"]
            /\ reply' = Say("marked as done", aid, 0)
    /\ UNCHANGED <<phaseVars, visitVars, views, next_action_id,
                   pending_abilities, processed, skipped, skip_log, clock,
                   setupVars, knockVars, visits, roleblocks>>

\* AdminActionView.cancel_action, up to its first await: a click on Cancel
\* under the message in log-actions
admin_cancel_action(aid) ==
    /\ aid \in DOMAIN actions
    /\ "admin" \in views[aid]
    /\ IF actions[aid] \in {"done", "cancelled"}
       THEN /\ actions' = actions
            /\ reply' = Say("This action is already " \o actions[aid], aid, 0)
       ELSE /\ actions' = [actions EXCEPT ![aid] = "cancelled"]
            /\ reply' = Say("cancelled in log-actions", aid, 0)
    /\ UNCHANGED <<phaseVars, visitVars, views, next_action_id,
                   pending_abilities, processed, skipped, skip_log, clock,
                   setupVars, knockVars, visits, roleblocks>>

\* update_action_messages, called by a handler that has set the status:
\* one of its two awaited edits, msg.edit(embed=embed, view=None), takes
\* the buttons off the message `which`; an edit that fails leaves them
update_action_messages(aid, which) ==
    /\ aid \in DOMAIN actions
    /\ actions[aid] # "pending"
    /\ which \in views[aid]
    /\ views' = [views EXCEPT ![aid] = @ \ {which}]
    /\ UNCHANGED <<phaseVars, visitVars, actions, next_action_id,
                   pending_abilities, processed, skipped, skip_log, clock,
                   setupVars, knockVars, visits, roleblocks, reply>>

----------------------------------------------------------------------------
(* ActionQueueCog: blocks *)

\* .block #rc <key> [until] [boundary]
block_ability(rc, ability_key, until, boundary) ==
    /\ roleblocks' = Put(roleblocks, RbKey(rc, ability_key),
                         [until |-> until, boundary |-> boundary])
    /\ reply' = Say("Blocked ability", 0, 0)
    /\ UNCHANGED <<phaseVars, visitVars, queueVars, setupVars, knockVars,
                   visits>>

\* .unblock #rc <key>
unblock_ability(rc, ability_key) ==
    /\ IF RbKey(rc, ability_key) \in DOMAIN roleblocks
       THEN /\ roleblocks' = Drop(roleblocks, RbKey(rc, ability_key))
            /\ reply' = Say("Unblocked ability", 0, 0)
       ELSE /\ roleblocks' = roleblocks
            /\ reply' = Say("No roleblock found", 0, 0)
    /\ UNCHANGED <<phaseVars, visitVars, queueVars, setupVars, knockVars,
                   visits>>

\* .visitblock #rc <until>
visit_block(rc, until) ==
    /\ roleblocks' = Put(roleblocks, ChKey(rc),
                         [until |-> until, boundary |-> "unset"])
    /\ reply' = Say("Visits blocked", 0, 0)
    /\ UNCHANGED <<phaseVars, visitVars, queueVars, setupVars, knockVars,
                   visits>>

\* .unvisitblock #rc: the channel's dict stays, without its "visit_block"
unvisit_block(rc) ==
    /\ IF HasVisitBlock(roleblocks, rc)
       THEN /\ roleblocks' = Put(roleblocks, ChKey(rc),
                                 [until |-> NoUntil, boundary |-> "unset"])
            /\ reply' = Say("Visit block removed", 0, 0)
       ELSE /\ roleblocks' = roleblocks
            /\ reply' = Say("No visit block found", 0, 0)
    /\ UNCHANGED <<phaseVars, visitVars, queueVars, setupVars, knockVars,
                   visits>>

\* len(removed_keys), as logged by process_phase_change
Cleared(rb, after) == Cardinality(DOMAIN rb \ DOMAIN after)

\* set_phase: "Public API to set the current phase and process expiries"
set_phase(rb, new_phase) == process_phase_change(rb, new_phase)

----------------------------------------------------------------------------
(* ActionQueueCog: setup commands *)

\* str.lower() on the team names an admin types
Lower(name) ==
    CASE name = "Dark" -> "dark"
      [] name = "Sublime" -> "sublime"
      [] name = "Shadow" -> "shadow"
      [] OTHER -> name

\* a .team that also rewrites the team of the actions the RC has queued
set_team_Retags(rc, team_name) ==
    /\ teams' = Put(teams, rc, Lower(team_name))
    /\ pending_abilities' =
           [i \in DOMAIN pending_abilities |->
               IF pending_abilities[i].channel_id = rc
               THEN [pending_abilities[i] EXCEPT !.team = Lower(team_name)]
               ELSE pending_abilities[i]]
    /\ reply' = Say("Set team", 0, 0)
    /\ UNCHANGED <<phaseVars, visitVars, actions, views, next_action_id,
                   processed, skipped, skip_log, clock, abilities, knockVars,
                   visits, roleblocks>>

\* .team #rc <team>
set_team(rc, team_name) ==
    /\ teams' = Put(teams, rc, Lower(team_name))
    /\ reply' = Say("Set team", 0, 0)
    /\ UNCHANGED <<phaseVars, visitVars, queueVars, abilities, knockVars,
                   visits, roleblocks>>

\* a check that only finds the very same key
NumberTaken_SameKey(channel_abilities, key) == key \in DOMAIN channel_abilities

\* .giveability, "Prevent duplicate numeric identifiers regardless of A
\* prefix": an existing key has the number of `key`
NumberTaken(channel_abilities, key) ==
    \E existing \in DOMAIN channel_abilities : existing[2] = key[2]

\* .giveability #rc <key> <category> <uses>; `ability_key` is the key
\* upper-cased, NoKey when it is neither digits nor A and digits.  The
\* model stores the category of an ability and leaves the uses out.
give_ability(rc, ability_key, category) ==
    LET cat == CASE category = "lethal" -> "Lethal"
                 [] category = "block" -> "Blocking"
                 [] OTHER -> category
        \* config.ABILITY_CATEGORIES
        ABILITY_CATEGORIES ==
            {"Manipulation", "Protection", "Blocking", "Curing", "Information",
             "Economy", "Transport", "Communication", "Lethal", "Other"}
        channel_abilities == AbilitiesOf(abilities, rc)
    IN  /\ IF ability_key[1] \notin {"", "A"}
           THEN /\ abilities' = abilities
                /\ reply' = Say("Ability number must be numeric or A-prefixed", 0, 0)
           ELSE IF cat \notin ABILITY_CATEGORIES
           THEN /\ abilities' = abilities
                /\ reply' = Say("Invalid category", 0, 0)
           ELSE IF NumberTaken(channel_abilities, ability_key)
           THEN /\ abilities' = Put(abilities, rc, channel_abilities)
                /\ reply' = Say("Ability number already assigned", 0, 0)
           ELSE /\ abilities' = Put(abilities, rc,
                                    Put(channel_abilities, ability_key, cat))
                /\ reply' = Say("Assigned ability", 0, 0)
        /\ UNCHANGED <<phaseVars, visitVars, queueVars, teams, knockVars,
                       visits, roleblocks>>

\* .removeability #rc <key>
remove_ability(rc, ability_key) ==
    /\ IF ability_key \in DOMAIN AbilitiesOf(abilities, rc)
       THEN /\ abilities' = [abilities EXCEPT ![rc] = Drop(@, ability_key)]
            /\ reply' = Say("Removed ability", 0, 0)
       ELSE /\ abilities' = abilities
            /\ reply' = Say("Ability not found", 0, 0)
    /\ UNCHANGED <<phaseVars, visitVars, queueVars, teams, knockVars,
                   visits, roleblocks>>

\* .updateability #rc <key> <category>: the category is stored as typed
update_ability(rc, ability_key, new_category) ==
    /\ IF ability_key \notin DOMAIN AbilitiesOf(abilities, rc)
       THEN /\ abilities' = abilities
            /\ reply' = Say("Ability not found", 0, 0)
       ELSE /\ abilities' = [abilities EXCEPT ![rc][ability_key] = new_category]
            /\ reply' = Say("Updated", 0, 0)
    /\ UNCHANGED <<phaseVars, visitVars, queueVars, teams, knockVars,
                   visits, roleblocks>>

----------------------------------------------------------------------------
(* ActionQueueCog: the per-RC visit pool commands *)

PoolOf(vis, ch) == IF ch \in DOMAIN vis THEN vis[ch] ELSE Empty

\* .givevisit #rc <count> [type]
give_visit(rc, count, vtype) ==
    /\ visits' = Put(visits, rc, Put(PoolOf(visits, rc), vtype, count))
    /\ reply' = Say("Gave visits", 0, 0)
    /\ UNCHANGED <<phaseVars, visitVars, queueVars, setupVars, knockVars,
                   roleblocks>>

\* .removevisits #rc <count> [type]
remove_visits(rc, count, vtype) ==
    /\ IF rc \notin DOMAIN visits \/ vtype \notin DOMAIN visits[rc]
       THEN /\ visits' = visits
            /\ reply' = Say("No visits of that type", 0, 0)
       ELSE /\ visits' = [visits EXCEPT ![rc] = Drop(@, vtype)]
            /\ reply' = Say("Removed visits", 0, 0)
    /\ UNCHANGED <<phaseVars, visitVars, queueVars, setupVars, knockVars,
                   roleblocks>>

----------------------------------------------------------------------------
(* VisitCountCog *)

VisitKinds == {"night", "day", "forced", "stealth"}

DefaultCounts == [night |-> 0, day |-> 0, forced |-> 0, stealth |-> 0]

\* _key
_key(guild_id, member_id) == <<guild_id, member_id>>

\* get_counts: a copy, the stored data is not touched
get_counts(cn, k) == IF k \in DOMAIN cn THEN cn[k] ELSE DefaultCounts

\* data["counts"].setdefault(k, {...})
SetDefault(cn, k) == IF k \in DOMAIN cn THEN cn ELSE Put(cn, k, DefaultCounts)

\* add_visits
add_visits(cn, k, kind, amount) ==
    [SetDefault(cn, k) EXCEPT ![k][kind] = @ + amount]

\* has_visit
has_visit(cn, k, kind) == get_counts(cn, k)[kind] > 0

\* consume_visit: whether it returns True
consume_ok(cn, k, kind) == SetDefault(cn, k)[k][kind] > 0

\* a consume that takes a unit whatever the counter holds
consume_visit_Always(cn, k, kind) ==
    [SetDefault(cn, k) EXCEPT ![k][kind] = @ - 1]

\* consume_visit: the counts it leaves
consume_visit(cn, k, kind) ==
    IF consume_ok(cn, k, kind)
    THEN [SetDefault(cn, k) EXCEPT ![k][kind] = @ - 1]
    ELSE SetDefault(cn, k)

\* reset_night / reset_day: every player of the guild with a stored income
\* gets the income as the count of that kind
reset_kind(cn, inc, guild_id, kind, field) ==
    LET ks == {k \in DOMAIN inc : k[1] = guild_id}
    IN  [k \in DOMAIN cn \cup ks |->
            IF k \in ks
            THEN [get_counts(cn, k) EXCEPT ![kind] = inc[k][field]]
            ELSE cn[k]]

\* set_income
set_income(inc, k, night_income, day_income) ==
    Put(inc, k, [night_income |-> night_income, day_income |-> day_income])

reset_night(cn, inc, guild_id) ==
    reset_kind(cn, inc, guild_id, "night", "night_income")

reset_day(cn, inc, guild_id) ==
    reset_kind(cn, inc, guild_id, "day", "day_income")

\* "Update VisitCountCog inventories for day/night phases"
RefillFor(cn, inc, guild_id, phase) ==
    IF phase = "night" THEN reset_night(cn, inc, guild_id)
    ELSE IF phase = "day" THEN reset_day(cn, inc, guild_id)
    ELSE cn

VisitPhaseFor(vp, guild_id, phase) ==
    IF phase \in DayNight THEN [vp EXCEPT ![guild_id] = phase] ELSE vp

----------------------------------------------------------------------------
(* PhasesCog: commands *)

\* the counter stays within the bound of the model
WithinCycles(g, phase) == _set_phase_for_guild(phases[g], phase).count <= MaxCycle

\* a .phase set that stores whatever token it is given
phase_set_Unchecked(g, phase) ==
    /\ WithinCycles(g, phase)
    /\ phases' = [phases EXCEPT ![g] = _set_phase_for_guild(@, phase)]
    /\ current_phase' = _get_phase_for_guild(phases', g)
    /\ roleblocks' = set_phase(roleblocks, current_phase')
    /\ counts' = RefillFor(counts, income, g, phase)
    /\ visit_phase' = VisitPhaseFor(visit_phase, g, phase)
    /\ reply' = Say("Phase set", Cleared(roleblocks, roleblocks'), 0)
    /\ UNCHANGED <<income, queueVars, setupVars, knockVars, visits>>

\* .phase set <phase>
phase_set(g, phase) ==
    IF \A i \in DOMAIN PHASE_ORDER : PHASE_ORDER[i] # phase
    THEN /\ reply' = Say("Unknown phase", 0, 0)
         /\ UNCHANGED <<phaseVars, visitVars, queueVars, setupVars, knockVars,
                        visits, roleblocks>>
    ELSE /\ WithinCycles(g, phase)
         /\ phases' = [phases EXCEPT ![g] = _set_phase_for_guild(@, phase)]
         /\ current_phase' = _get_phase_for_guild(phases', g)
         /\ roleblocks' = set_phase(roleblocks, current_phase')
         /\ counts' = RefillFor(counts, income, g, phase)
         /\ visit_phase' = VisitPhaseFor(visit_phase, g, phase)
         /\ reply' = Say("Phase set", Cleared(roleblocks, roleblocks'), 0)
         /\ UNCHANGED <<income, queueVars, setupVars, knockVars, visits>>

\* PHASE_ORDER[(idx + 1) % len(PHASE_ORDER)]
NextPhase(token) ==
    LET idx == CHOOSE i \in DOMAIN PHASE_ORDER : PHASE_ORDER[i] = token
    IN  PHASE_ORDER[(idx % Len(PHASE_ORDER)) + 1]

\* .phase next
phase_next(g) ==
    LET next_phase == NextPhase(phases[g].phase)
    IN  /\ WithinCycles(g, next_phase)
        /\ phases' = [phases EXCEPT ![g] = _set_phase_for_guild(@, next_phase)]
        /\ counts' = RefillFor(counts, income, g, next_phase)
        /\ visit_phase' = VisitPhaseFor(visit_phase, g, next_phase)
        /\ reply' = Say("Phase advanced", 0, 0)
        /\ UNCHANGED <<income, queueVars, setupVars, knockVars, visits,
                       roleblocks, current_phase>>

\* .phase reset
phase_reset(g) ==
    /\ phases' = [phases EXCEPT ![g] = reset_phase_count(@)]
    /\ current_phase' = _get_phase_for_guild(phases', g)
    /\ roleblocks' = set_phase(roleblocks, current_phase')
    /\ reply' = Say("Phase counter reset", Cleared(roleblocks, roleblocks'), 0)
    /\ UNCHANGED <<visitVars, visit_phase, queueVars, setupVars, knockVars,
                   visits>>

\* .day and .night
set_day_night(g, phase) ==
    /\ WithinCycles(g, phase)
    /\ phases' = [phases EXCEPT ![g] = _set_phase_for_guild(@, phase)]
    /\ counts' = RefillFor(counts, income, g, phase)
    /\ visit_phase' = VisitPhaseFor(visit_phase, g, phase)
    /\ reply' = Say("Phase set (short command)", 0, 0)
    /\ UNCHANGED <<income, queueVars, setupVars, knockVars, visits,
                   roleblocks, current_phase>>

set_day(g) == set_day_night(g, "day")

set_night(g) == set_day_night(g, "night")

----------------------------------------------------------------------------
(* VisitCountCog: commands *)

\* all the visits a player holds
Held(cn, k) ==
    get_counts(cn, k).night + get_counts(cn, k).day
        + get_counts(cn, k).forced + get_counts(cn, k).stealth

\* .visits give <member> <kind> <amount>
visits_give(g, member, kind, amount) ==
    /\ Held(counts, _key(g, member)) + amount <= MaxVisits
    /\ get_counts(counts, _key(g, member))[kind] + amount >= -MaxVisits
    /\ counts' = add_visits(counts, _key(g, member), kind, amount)
    /\ reply' = Say("Given visits", amount, 0)
    /\ UNCHANGED <<phaseVars, income, queueVars, setupVars, knockVars,
                   visits, roleblocks>>

\* .visits set-income <member> <night_income> <day_income>
visits_set_income(g, member, night_income, day_income) ==
    /\ income' = set_income(income, _key(g, member), night_income, day_income)
    /\ reply' = Say("Set incomes", night_income, day_income)
    /\ UNCHANGED <<phaseVars, counts, queueVars, setupVars, knockVars,
                   visits, roleblocks>>

\* .visits set-phase <phase>: set_phase raises ValueError for a phase that
\* is not "night" or "day" (as typed, the command does not lower-case it)
visits_set_phase(g, phase) ==
    /\ IF phase \in DayNight
       THEN /\ visit_phase' = [visit_phase EXCEPT ![g] = phase]
            /\ reply' = Say("Phase set for this guild", 0, 0)
       ELSE /\ visit_phase' = visit_phase
            /\ reply' = Say("phase must be 'night' or 'day'", 0, 0)
    /\ UNCHANGED <<phases, current_phase, visitVars, queueVars, setupVars,
                   knockVars, visits, roleblocks>>

\* a cog calls consume_visit(guild_id, member_id, kind); the reply holds
\* what the call returned
consume(g, member, kind) ==
    /\ counts' = consume_visit(counts, _key(g, member), kind)
    /\ reply' = Say("consume_visit returned",
                    IF consume_ok(counts, _key(g, member), kind) THEN 1 ELSE 0,
                    0)
    /\ UNCHANGED <<phaseVars, income, queueVars, setupVars, knockVars,
                   visits, roleblocks>>

----------------------------------------------------------------------------
(* KnocksCog *)

\* the RC channel a player types commands in
RcOf(member) == IF member = "m1" THEN "c1" ELSE "c2"

\* the loop "for e in enchants": the counts after consuming each in turn
RECURSIVE ConsumeEnchants(_, _, _)
ConsumeEnchants(cn, k, enchants) ==
    IF enchants = <<>> THEN cn
    ELSE ConsumeEnchants(consume_visit(cn, k, Head(enchants)), k, Tail(enchants))

\* the enchantments whose consume_visit returned False: consumed[e] is
\* the result of the last call made for e
RECURSIVE MissingEnchants(_, _, _)
MissingEnchants(cn, k, enchants) ==
    IF enchants = <<>> THEN {}
    ELSE LET e == Head(enchants)
             rest == MissingEnchants(consume_visit(cn, k, e), k, Tail(enchants))
         IN  IF consume_ok(cn, k, e)
             THEN rest
             ELSE rest \cup {e}

\* whether the loop leaves ok = True
EnchantsOk(cn, k, enchants) == MissingEnchants(cn, k, enchants) = {}

\* a failed move after which nothing is given back
RefundEnchants_None(cn, k, enchants) == cn

\* "refund consumed enchantments on failure"
RECURSIVE RefundEnchants(_, _, _)
RefundEnchants(cn, k, enchants) ==
    IF enchants = <<>> THEN cn
    ELSE RefundEnchants(add_visits(cn, k, Head(enchants), 1), k, Tail(enchants))

\* a move that leaves the member where they were
move_member_to_house_Stays(mn, member, target, ok_move) == mn

\* move_member_to_house: where the member is afterwards. A failed grant of
\* the target comes after the member's other manors were cleared.
move_member_to_house(mn, member, target, ok_move) ==
    IF ok_move THEN [mn EXCEPT ![member] = target]
    ELSE [mn EXCEPT ![member] = Nowhere]

\* the enchanted branch of .knock for a member who is not an overseer:
\* the counts it leaves
EnchantedCounts(cn, k, enchants, ok_move) ==
    LET after == ConsumeEnchants(cn, k, enchants)
    IN  IF ~EnchantsOk(cn, k, enchants) THEN after
        ELSE IF ok_move THEN after
        ELSE RefundEnchants(after, k, enchants)

NoSent == [opened |-> 0, refused |-> 0, consumed |-> 0, moved |-> 0]

\* .knock [stealth|forced ...] <target> typed in the RC of `member`
knock(g, member, overseer, enchants, target, ok_move) ==
    LET k == _key(g, member)
    IN  IF enchants # <<>>
        THEN IF overseer
             THEN /\ manor' = move_member_to_house(manor, member, target, ok_move)
                  /\ reply' = Say(IF ok_move THEN "Knock (enchanted) executed"
                                  ELSE "Enchanted knock failed", 0, 0)
                  /\ UNCHANGED <<phaseVars, visitVars, queueVars, setupVars,
                                 visits, roleblocks, pending, next_msg_id,
                                 tasks, sent>>
             ELSE /\ counts' = EnchantedCounts(counts, k, enchants, ok_move)
                  /\ IF ~EnchantsOk(counts, k, enchants)
                     THEN /\ manor' = manor
                          /\ reply' = Say("lacks required enchantment(s)", 0, 0)
                     ELSE /\ manor' = move_member_to_house(manor, member,
                                                           target, ok_move)
                          /\ reply' = Say(IF ok_move
                                          THEN "Knock (enchanted) executed"
                                          ELSE "Enchanted knock failed", 0, 0)
                  /\ UNCHANGED <<phaseVars, income, queueVars, setupVars,
                                 visits, roleblocks, pending, next_msg_id,
                                 tasks, sent>>
        ELSE IF ~overseer /\ ~has_visit(counts, k, visit_phase[g])
        THEN /\ reply' = Say("has no visits remaining", 0, 0)
             /\ UNCHANGED <<phaseVars, visitVars, queueVars, setupVars,
                            knockVars, visits, roleblocks>>
        ELSE /\ next_msg_id <= MaxKnocks
             /\ pending' = Put(pending, next_msg_id,
                               [origin_channel |-> RcOf(member),
                                player_id |-> member,
                                target_id |-> target,
                                initiator_is_overseer |-> overseer,
                                guild |-> g])
             /\ sent' = Put(sent, next_msg_id, NoSent)
             /\ next_msg_id' = next_msg_id + 1
             /\ reply' = Say("Knock sent", next_msg_id, 0)
             /\ UNCHANGED <<phaseVars, visitVars, queueVars, setupVars,
                            visits, roleblocks, manor, tasks>>

----------------------------------------------------------------------------
(* KnocksCog.on_message: one task per reply; the task is suspended at    *)
(* each await and other handlers run meanwhile                           *)

\* a handler and the locals it keeps across its awaits
Task(pc, ref, player, target) ==
    [pc |-> pc, ref |-> ref, player_id |-> player, target_id |-> target]

Idle == Task("idle", 0, "", "")

Ignored(ref) == Task("done", ref, "", "")

FreeTask(i) ==
    /\ tasks[i].pc = "idle"
    /\ \A j \in DOMAIN tasks : j < i => tasks[j].pc # "idle"

\* a handler of open that goes on to open the knock whether or not a visit
\* could be taken
OpenStart_OpensAnyway(i, ref) ==
    /\ FreeTask(i)
    /\ IF ref \notin DOMAIN pending
       THEN /\ tasks' = [tasks EXCEPT ![i] = Ignored(ref)]
            /\ UNCHANGED <<counts, sent>>
       ELSE LET info == pending[ref]
                k == _key(info.guild, info.player_id)
                phase == visit_phase[info.guild]
            IN  /\ counts' = consume_visit(counts, k, phase)
                /\ tasks' = [tasks EXCEPT ![i] =
                                Task("announce_opened", ref,
                                     info.player_id, info.target_id)]
                /\ sent' = [sent EXCEPT ![ref].consumed = @ + 1,
                                        ![ref].opened = @ + 1]
    /\ UNCHANGED <<phaseVars, income, queueVars, setupVars, visits, roleblocks,
                   pending, next_msg_id, manor, reply>>

\* a reply with "open" in it arrives in the target manor: the handler runs
\* up to its first await
OpenStart(i, ref) ==
    /\ FreeTask(i)
    /\ IF ref \notin DOMAIN pending
       THEN /\ tasks' = [tasks EXCEPT ![i] = Ignored(ref)]
            /\ UNCHANGED <<counts, sent>>
       ELSE LET info == pending[ref]
                k == _key(info.guild, info.player_id)
                phase == visit_phase[info.guild]
            IN  /\ counts' = consume_visit(counts, k, phase)
                /\ IF consume_ok(counts, k, phase)
                   THEN /\ tasks' = [tasks EXCEPT ![i] =
                                        Task("announce_opened", ref,
                                             info.player_id, info.target_id)]
                        /\ sent' = [sent EXCEPT ![ref].consumed = @ + 1,
                                                ![ref].opened = @ + 1]
                   ELSE /\ tasks' = [tasks EXCEPT ![i] =
                                        Task("say_no_visits", ref,
                                             info.player_id, info.target_id)]
                        /\ sent' = sent
    /\ UNCHANGED <<phaseVars, income, queueVars, setupVars, visits, roleblocks,
                   pending, next_msg_id, manor, reply>>

\* "has no visits remaining to open the knock" was sent: pop the ticket
OpenNoVisits(i) ==
    /\ tasks[i].pc = "say_no_visits"
    /\ pending' = Drop(pending, tasks[i].ref)
    /\ tasks' = [tasks EXCEPT ![i].pc = "done"]
    /\ UNCHANGED <<phaseVars, visitVars, queueVars, setupVars, visits,
                   roleblocks, next_msg_id, manor, sent, reply>>

\* "The knock is opened by ..." was sent: move the player. The player and
\* the target were read from the ticket before the await.
OpenMove(i, ok_move) ==
    /\ tasks[i].pc = "announce_opened"
    /\ manor' = move_member_to_house(manor, tasks[i].player_id,
                                     tasks[i].target_id, ok_move)
    /\ sent' = [sent EXCEPT ![tasks[i].ref].moved =
                                @ + (IF ok_move THEN 1 ELSE 0)]
    /\ tasks' = [tasks EXCEPT ![i].pc = "notify"]
    /\ UNCHANGED <<phaseVars, visitVars, queueVars, setupVars, visits,
                   roleblocks, pending, next_msg_id, reply>>

\* the origin (or the failure) was told: self.pending.pop(ref, None)
OpenFinish(i) ==
    /\ tasks[i].pc = "notify"
    /\ pending' = Drop(pending, tasks[i].ref)
    /\ tasks' = [tasks EXCEPT ![i].pc = "done"]
    /\ UNCHANGED <<phaseVars, visitVars, queueVars, setupVars, visits,
                   roleblocks, next_msg_id, manor, sent, reply>>

\* a refusal that takes a visit of the current phase from the player, as an
\* opening does
RefuseFinish_TakesVisit(i) ==
    /\ tasks[i].pc = "announce_refused"
    /\ pending' = Drop(pending, tasks[i].ref)
    /\ tasks' = [tasks EXCEPT ![i].pc = "done"]
    /\ counts' = consume_visit(counts, _key("g1", tasks[i].player_id),
                               visit_phase["g1"])
    /\ UNCHANGED <<phaseVars, income, queueVars, setupVars, visits,
                   roleblocks, next_msg_id, manor, sent, reply>>

\* a reply with "refuse" (and no "open") arrives: up to the first await
RefuseStart(i, ref) ==
    /\ FreeTask(i)
    /\ IF ref \notin DOMAIN pending
       THEN /\ tasks' = [tasks EXCEPT ![i] = Ignored(ref)]
            /\ sent' = sent
       ELSE /\ tasks' = [tasks EXCEPT ![i] =
                            Task("announce_refused", ref,
                                 pending[ref].player_id, pending[ref].target_id)]
            /\ sent' = [sent EXCEPT ![ref].refused = @ + 1]
    /\ UNCHANGED <<phaseVars, visitVars, queueVars, setupVars, visits,
                   roleblocks, pending, next_msg_id, manor, reply>>

\* the refusal was announced: self.pending.pop(ref, None)
RefuseFinish(i) ==
    /\ tasks[i].pc = "announce_refused"
    /\ pending' = Drop(pending, tasks[i].ref)
    /\ tasks' = [tasks EXCEPT ![i].pc = "done"]
    /\ UNCHANGED <<phaseVars, visitVars, queueVars, setupVars, visits,
                   roleblocks, next_msg_id, manor, sent, reply>>

----------------------------------------------------------------------------
(* Initial states *)

\* the state the cogs construct when no saved file exists
Fresh ==
    /\ phases = [g \in Guilds |-> [phase |-> "pregame", count |-> 1]]
    /\ counts = Empty
    /\ income = Empty
    /\ visit_phase = [g \in Guilds |-> "night"]
    /\ actions = Empty
    /\ views = Empty
    /\ next_action_id = 1
    /\ pending_abilities = <<>>
    /\ current_phase = <<"long", "day", 1>>
    /\ visits = Empty
    /\ roleblocks = Empty
    /\ processed = <<>>
    /\ skipped = <<>>
    /\ skip_log = {}
    /\ clock = 0
    /\ pending = Empty
    /\ next_msg_id = 1
    /\ manor = [m \in Members |-> Nowhere]
    /\ tasks = [i \in 1..MaxReplies |-> Idle]
    /\ sent = Empty
    /\ reply = Say("", 0, 0)

Key1 == <<"", 1>>       \* "1"
KeyA1 == <<"A", 1>>     \* "A1"

NoSetup == abilities = Empty /\ teams = Empty

\* _load_state restored the abilities and teams an earlier run had assigned
\* with .giveability and .team
SavedSetup ==
    /\ abilities = [c \in Channels |->
                       IF c = "c1" THEN (Key1 :> "Lethal")
                       ELSE (KeyA1 :> "Blocking")]
    /\ teams = ("c1" :> "dark")

----------------------------------------------------------------------------
(* The knock workflow of one guild *)

EnchantLists ==
    {<<>>, <<"stealth">>, <<"forced">>, <<"stealth", "forced">>,
     <<"forced", "stealth">>}

InitKnock == Fresh /\ NoSetup

GiveKnock == \E kind \in {"night", "stealth", "forced"} :
                visits_give("g1", "m1", kind, 1)

KnockKnock == \E overseer \in BOOLEAN, enchants \in EnchantLists,
                 target \in {"h2"}, ok_move \in BOOLEAN :
                knock("g1", "m1", overseer, enchants, target, ok_move)

OpenStartKnock == \E i \in 1..MaxReplies, ref \in 1..MaxKnocks : OpenStart(i, ref)

RefuseStartKnock == \E i \in 1..MaxReplies, ref \in 1..MaxKnocks : RefuseStart(i, ref)

OpenNoVisitsKnock == \E i \in 1..MaxReplies : OpenNoVisits(i)

OpenMoveKnock == \E i \in 1..MaxReplies, ok_move \in BOOLEAN : OpenMove(i, ok_move)

OpenFinishKnock == \E i \in 1..MaxReplies : OpenFinish(i)

RefuseFinishKnock == \E i \in 1..MaxReplies : RefuseFinish(i)

NextKnock ==
    \/ GiveKnock
    \/ KnockKnock
    \/ OpenStartKnock
    \/ RefuseStartKnock
    \/ OpenNoVisitsKnock
    \/ OpenMoveKnock
    \/ OpenFinishKnock
    \/ RefuseFinishKnock

SpecKnock == InitKnock /\ [][NextKnock]_vars

----------------------------------------------------------------------------
(* The phase clock of one guild and the stored blocks *)

UntilTokens == {<<"short", "n", 1>>, <<"long", "day", 2>>, Forever, Junk}

InitSweep == Fresh /\ NoSetup

BlockSweep == \E until \in UntilTokens, boundary \in {"end", "beginning"} :
                 block_ability("c1", Key1, until, boundary)

UnblockSweep == unblock_ability("c1", Key1)

VisitBlockSweep == \E until \in UntilTokens : visit_block("c2", until)

UnvisitBlockSweep == unvisit_block("c2")

PhaseSetSweep == \E phase \in {"pregame", "night", "day", "postgame", "dusk"} :
                    phase_set("g1", phase)

PhaseNextSweep == phase_next("g1")

PhaseResetSweep == phase_reset("g1")

SetDaySweep == set_day("g1")

SetNightSweep == set_night("g1")

NextSweep ==
    \/ BlockSweep
    \/ UnblockSweep
    \/ VisitBlockSweep
    \/ UnvisitBlockSweep
    \/ PhaseSetSweep
    \/ PhaseNextSweep
    \/ PhaseResetSweep
    \/ SetDaySweep
    \/ SetNightSweep

SpecSweep == InitSweep /\ [][NextSweep]_vars

----------------------------------------------------------------------------
(* The resolution queue with blocks: abilities and teams are set up, the  *)
(* players of both RCs submit, the admin blocks and unblocks RC c1, moves *)
(* the clock with .phase set and resolves                                 *)

OwnerOf(ch) == IF ch = "c1" THEN "m1" ELSE "m2"

InitQueue == Fresh /\ SavedSetup

UseQueue == \E ch \in Channels, typed \in {Key1, KeyA1} :
               use(ch, OwnerOf(ch), typed, clock + 1)

BlockQueue == \E b \in {<<Key1, Forever>>, <<Key1, <<"short", "d", 1>>>>,
                       <<KeyA1, Forever>>} :
                 block_ability("c1", b[1], b[2], "end")

UnblockQueue == \E ability_key \in {Key1, KeyA1} : unblock_ability("c1", ability_key)

VisitBlockQueue == visit_block("c1", Forever)

UnvisitBlockQueue == unvisit_block("c1")

PhaseSetQueue == phase_set("g1", "night")

ProcessQueue == process_os

NextQueue ==
    \/ UseQueue
    \/ BlockQueue
    \/ UnblockQueue
    \/ VisitBlockQueue
    \/ UnvisitBlockQueue
    \/ PhaseSetQueue
    \/ ProcessQueue

SpecQueue == InitQueue /\ [][NextQueue]_vars

----------------------------------------------------------------------------
(* The resolution order: _load_state restored a queue of pending entries  *)
(* of any categories and teams, and the admin resolves it                 *)

\* config.ABILITY_CATEGORIES, and "lethal" as .updateability stores it
Categories ==
    {"Manipulation", "Protection", "Blocking", "Curing", "Information",
     "Economy", "Transport", "Communication", "Lethal", "Other", "lethal"}

\* the teams of both orders, a team of neither, and no team
TeamNames == {"sublime", "shadow", "dark", "rk", "neutral", "town", NoTeam}

\* the i-th entry of a restored queue
Restored(i, category, team, at) ==
    PendingEntry(i, IF i = 1 THEN "c1" ELSE "c2", Key1, category, team, at,
                 IF i = 1 THEN "m1" ELSE "m2")

RestoredQueues ==
    UNION {[1..n -> Categories \X TeamNames \X (0..MaxTime)] : n \in 0..MaxQueue}

InitOrder ==
    /\ phases = [g \in Guilds |-> [phase |-> "pregame", count |-> 1]]
    /\ counts = Empty
    /\ income = Empty
    /\ visit_phase = [g \in Guilds |-> "night"]
    /\ \E q \in RestoredQueues :
          /\ pending_abilities =
                 [i \in DOMAIN q |-> Restored(i, q[i][1], q[i][2], q[i][3])]
          /\ next_action_id = Len(q) + 1
          /\ actions = [i \in DOMAIN q |-> "pending"]
          /\ views = [i \in DOMAIN q |-> {"player", "admin"}]
    /\ current_phase = <<"long", "day", 1>>
    /\ visits = Empty
    /\ roleblocks = Empty
    /\ processed = <<>>
    /\ skipped = <<>>
    /\ skip_log = {}
    /\ clock = MaxTime
    /\ pending = Empty
    /\ next_msg_id = 1
    /\ manor = [m \in Members |-> Nowhere]
    /\ tasks = [i \in 1..MaxReplies |-> Idle]
    /\ sent = Empty
    /\ reply = Say("", 0, 0)
    /\ NoSetup

ProcessOrder == process_os

NextOrder == ProcessOrder

SpecOrder == InitOrder /\ [][NextOrder]_vars

----------------------------------------------------------------------------
(* Categories and teams changed between submissions *)

InitCategory == Fresh /\ SavedSetup

UpdateCategory == \E rc \in Channels, ability_key \in {Key1, KeyA1} :
                     update_ability(rc, ability_key, "lethal")

TeamCategory == \/ set_team("c1", "Sublime")
                \/ set_team("c2", "dark")

UseCategory == \E ch \in Channels : use(ch, OwnerOf(ch), Key1, clock + 1)

ProcessCategory == process_os

NextCategory ==
    \/ UpdateCategory
    \/ remove_ability("c1", Key1)
    \/ TeamCategory
    \/ UseCategory
    \/ ProcessCategory

SpecCategory == InitCategory /\ [][NextCategory]_vars

----------------------------------------------------------------------------
(* The resolution queue with the visit pool of RC c1; RC c2 never gets a  *)
(* pool and its ability can be blocked                                    *)

\* "0", "2" and "now"
PoolCounts == {<<0, "">>, <<2, "">>, <<-1, "now">>}

InitPool == Fresh /\ SavedSetup

UsePool == \E ch \in Channels : use(ch, OwnerOf(ch), Key1, clock + 1)

GivePool == \/ \E count \in PoolCounts : give_visit("c1", count, "regular")
            \/ give_visit("c1", <<1, "n">>, "stealth")

RemovePool == remove_visits("c1", <<2, "">>, "regular")

BlockPool == block_ability("c2", KeyA1, Forever, "end")

UnblockPool == unblock_ability("c2", KeyA1)

ProcessPool == process_os

NextPool ==
    \/ UsePool
    \/ GivePool
    \/ RemovePool
    \/ BlockPool
    \/ UnblockPool
    \/ ProcessPool

SpecPool == InitPool /\ [][NextPool]_vars

(* Tracked actions: the players start actions with .use, and the buttons  *)
(* under the two messages of each action are clicked while the handlers   *)
(* of earlier clicks are still editing the messages                       *)
NextTrack ==
    \/ \E ch \in Channels : use(ch, OwnerOf(ch), NoKey, clock + 1)
    \/ \E aid \in 1..MaxActions, by_initiator \in BOOLEAN :
          player_cancel_action(aid, by_initiator)
    \/ \E aid \in 1..MaxActions : mark_done(aid)
    \/ \E aid \in 1..MaxActions : admin_cancel_action(aid)
    \/ \E aid \in 1..MaxActions, which \in {"player", "admin"} :
          update_action_messages(aid, which)

SpecTrack == InitKnock /\ [][NextTrack]_vars

(* Resolve cycles with blocks and pools: both RCs submit actions and are  *)
(* given regular visits, the ability of c2 and the visits of c2 are       *)
(* blocked and unblocked, and the admin runs .processos                   *)
NextCycle ==
    \/ \E ch \in Channels : use(ch, OwnerOf(ch), Key1, clock + 1)
    \/ \E ch \in Channels : give_visit(ch, <<2, "">>, "regular")
    \/ block_ability("c2", KeyA1, Forever, "end")
    \/ unblock_ability("c2", KeyA1)
    \/ visit_block("c2", Forever)
    \/ unvisit_block("c2")
    \/ process_os

SpecCycle == InitPool /\ [][NextCycle]_vars

----------------------------------------------------------------------------
(* The visit counts of guild g1: the admin grants and takes visits, sets  *)
(* incomes and moves the clock, the cogs consume                          *)

NextVisits ==
    \/ \E kind \in {"night", "day"}, amount \in {-1, 1, 2} :
          visits_give("g1", "m1", kind, amount)
    \/ visits_set_income("g1", "m1", 1, 2)
    \/ visits_set_income("g1", "m2", 2, 0)
    \/ \E kind \in {"night", "day"} : consume("g1", "m1", kind)
    \/ \E phase \in {"pregame", "night", "day", "postgame"} :
          phase_set("g1", phase)

SpecVisits == InitSweep /\ [][NextVisits]_vars

----------------------------------------------------------------------------
(* Two guilds on one bot: RC c1 with player m1 is a channel of guild g1,   *)
(* RC c2 with player m2 a channel of guild g2; both guilds submit, the     *)
(* admin of g1 blocks, both admins move their clock, grant visits and      *)
(* resolve                                                                 *)

NextSessions ==
    \/ \E ch \in Channels : use(ch, OwnerOf(ch), Key1, clock + 1)
    \/ block_ability("c1", Key1, <<"short", "n", 1>>, "end")
    \/ phase_set("g1", "night")
    \/ \E phase \in DayNight : phase_set("g2", phase)
    \/ visits_give("g1", "m1", "night", MaxVisits)
    \/ process_os

SpecSessions == InitQueue /\ [][NextSessions]_vars

----------------------------------------------------------------------------
(* The admin assigns and removes abilities of both RCs while the player  *)
(* of RC c1 submits                                                      *)

Key2 == <<"", 2>>       \* "2"

NextSetup ==
    \/ \E key \in {Key1, KeyA1, Key2, NoKey}, category \in {"lethal", "bogus"} :
          give_ability("c1", key, category)
    \/ \E category \in {"block", "Other"} : give_ability("c2", KeyA1, category)
    \/ \E rc \in Channels, key \in {Key1, KeyA1, Key2} : remove_ability(rc, key)
    \/ \E typed \in {Key1, KeyA1, Key2} : use("c1", "m1", typed, clock + 1)

SpecSetup == InitSweep /\ [][NextSetup]_vars

----------------------------------------------------------------------------
(* A game in progress in guild g1: the player of RC c1 submits actions   *)
(* and knocks, the admin grants visits, moves the clock, sets the phase  *)
(* of the visit counts and resets the phase counter                      *)

NextReset ==
    \/ use("c1", "m1", Key1, clock + 1)
    \/ \E kind \in DayNight : visits_give("g1", "m1", kind, 1)
    \/ knock("g1", "m1", FALSE, <<>>, "h2", TRUE)
    \/ \E phase \in DayNight : phase_set("g1", phase)
    \/ \E phase \in DayNight \cup {"pregame"} : visits_set_phase("g1", phase)
    \/ phase_reset("g1")

SpecReset == InitQueue /\ [][NextReset]_vars

(* The knock workflow over days and nights: the player of guild g1 is     *)
(* granted night and day visits and knocks on h2, .day and .night move the *)
(* clock, and the replies open or refuse the tickets                      *)
NextOpen ==
    \/ visits_give("g1", "m1", "night", 1)
    \/ visits_give("g1", "m1", "day", MaxVisits)
    \/ knock("g1", "m1", FALSE, <<>>, "h2", TRUE)
    \/ \E phase \in DayNight : set_day_night("g1", phase)
    \/ OpenStartKnock
    \/ OpenNoVisitsKnock
    \/ \E i \in 1..MaxReplies : OpenMove(i, TRUE)
    \/ OpenFinishKnock
    \/ RefuseStartKnock
    \/ RefuseFinishKnock

SpecOpen == InitKnock /\ [][NextOpen]_vars

(* Enchanted knocks: the player of guild g1 is granted stealth and forced *)
(* visits, the player and an overseer knock on h2 with and without        *)
(* enchantments, and the replies open or refuse the tickets.  The player  *)
(* is granted no night visit, so every open ends for want of a visit.     *)
NextEnchant ==
    \/ \E kind \in {"stealth", "forced"} : visits_give("g1", "m1", kind, 1)
    \/ \E overseer \in BOOLEAN, enchants \in EnchantLists, ok_move \in BOOLEAN :
          knock("g1", "m1", overseer, enchants, "h2", ok_move)
    \/ OpenStartKnock
    \/ OpenNoVisitsKnock
    \/ RefuseStartKnock
    \/ RefuseFinishKnock

SpecEnchant == InitKnock /\ [][NextEnchant]_vars

----------------------------------------------------------------------------
(* Claims on the knock workflow *)

\* C1: a knock of a player (not an overseer) with the modifiers stealth and
\* forced either decrements both kinds or neither; when the player lacks one
\* of the kinds, the counters of all kinds are left as they were and the
\* knock is refused.
C1_ModifiersAllOrNothing ==
    [][\A enchants \in {<<"stealth", "forced">>, <<"forced", "stealth">>},
          ok_move \in BOOLEAN :
          knock("g1", "m1", FALSE, enchants, "h2", ok_move)
          => LET before == get_counts(counts, _key("g1", "m1"))
                 after == get_counts(counts', _key("g1", "m1"))
             IN  /\ \/ after = before
                    \/ /\ after.stealth = before.stealth - 1
                       /\ after.forced = before.forced - 1
                       /\ after.night = before.night
                       /\ after.day = before.day
                 /\ (before.stealth = 0 \/ before.forced = 0)
                        => /\ after = before
                           /\ reply'.msg = "lacks required enchantment(s)"
                           /\ manor' = manor]_vars

\* C2: whatever the interleaving of the replies to one ticket, the ticket
\* gets at most one outcome (opened or refused), at most one visit is
\* consumed for it and the initiator is moved at most once for it.
C2_ResolvedAtMostOnce ==
    \A ref \in DOMAIN sent :
        /\ sent[ref].opened + sent[ref].refused <= 1
        /\ sent[ref].consumed <= 1
        /\ sent[ref].moved <= 1

----------------------------------------------------------------------------
(* Claims on the block sweep *)

\* the epoch of a day or night phase of the clock: Day n is 2(n-1), Night n
\* is 2(n-1)+1
ClockEpoch(rec) == 2 * (rec.count - 1) + (IF rec.phase = "night" THEN 1 ELSE 0)

\* a stored block with a parsable expiry that is not forever
HasExpiryEpoch(entry) == entry.until[1] \in {"short", "long"}

ExpiryEpoch(entry) ==
    2 * (entry.until[3] - 1) + (IF entry.until[2] \in {"n", "night"} THEN 1 ELSE 0)

\* a block stored without a boundary has the boundary end
StoredBoundary(entry) ==
    IF entry.boundary = "beginning" THEN "beginning" ELSE "end"

\* the block is not due at epoch e
NotDue(entry, e) ==
    IF StoredBoundary(entry) = "end" THEN ExpiryEpoch(entry) >= e
    ELSE ExpiryEpoch(entry) > e

\* C3: after the current phase of the clock changes to a day or night phase
\* with epoch e, no stored block that is due at e remains: every stored block
\* with a parsable, non-forever expiry epoch E has E >= e (boundary end) or
\* E > e (boundary beginning).
C3_AdvanceSweeps ==
    [][\A g \in Guilds :
          (phases'[g] # phases[g] /\ phases'[g].phase \in DayNight)
          => \A k \in DOMAIN roleblocks' :
                HasExpiryEpoch(roleblocks'[k])
                => NotDue(roleblocks'[k], ClockEpoch(phases'[g]))]_vars

\* a sweep ran for the day or night phase guild g is in afterwards
SweptFor(g) ==
    /\ \/ \E phase \in {"night", "day"} : phase_set(g, phase)
       \/ phase_reset(g)
    /\ phases'[g].phase \in DayNight

\* C4: a sweep at epoch e keeps a block with boundary end and expiry epoch E
\* exactly when e <= E (still present after the sweep at E, removed by the
\* first sweep with e > E), and keeps a block with boundary beginning
\* exactly when e < E (removed by the first sweep with e >= E).
C4_SweepBoundary ==
    [][\A g \in Guilds :
          SweptFor(g)
          => \A k \in DOMAIN roleblocks :
                HasExpiryEpoch(roleblocks[k])
                => /\ k \in DOMAIN roleblocks'
                        <=> NotDue(roleblocks[k], ClockEpoch(phases'[g]))
                   /\ k \in DOMAIN roleblocks'
                        => roleblocks'[k] = roleblocks[k]]_vars

\* a sweep at Night 1 has just removed a block and left the block with
\* boundary end whose expiry is Night 1
C4_Witness ==
    /\ reply.msg = "Phase set"
    /\ reply.a >= 1
    /\ phases["g1"] = [phase |-> "night", count |-> 1]
    /\ \E k \in DOMAIN roleblocks :
          /\ HasExpiryEpoch(roleblocks[k])
          /\ StoredBoundary(roleblocks[k]) = "end"
          /\ ExpiryEpoch(roleblocks[k]) = ClockEpoch(phases["g1"])

----------------------------------------------------------------------------
(* Claims on the resolve cycle *)

\* .processos ran on a queue that was not empty
ResolveCycle == pending_abilities # <<>> /\ process_os

\* the entries of the queue whose oid is in ids, in the order of the queue
RECURSIVE Restrict(_, _)
Restrict(queue, ids) ==
    IF queue = <<>> THEN <<>>
    ELSE IF Head(queue).oid \in ids
         THEN <<Head(queue)>> \o Restrict(Tail(queue), ids)
         ELSE Restrict(Tail(queue), ids)

\* C5: a resolve cycle partitions the queue: every action pending at its
\* start is applied or skipped, never both and never twice; afterwards the
\* queue holds exactly the skipped actions, with status pending and in
\* their original relative order, and no action applied by the previous
\* cycle is applied again.
C5_CyclePartitions ==
    [][ResolveCycle
       => /\ Oids(processed') \cup SkippedOids(skipped') = Oids(pending_abilities)
          /\ Oids(processed') \cap SkippedOids(skipped') = {}
          /\ Len(processed') + Len(skipped') = Len(pending_abilities)
          /\ pending_abilities' =
                 Restrict(pending_abilities, SkippedOids(skipped'))
          /\ \A i \in DOMAIN pending_abilities' :
                 pending_abilities'[i].status = "pending"
          /\ Oids(processed') \cap Oids(processed) = {}]_vars

\* a cycle has just applied some actions and skipped others, and the queue
\* holds the skipped ones
C5_Witness ==
    /\ reply.msg = "Processed"
    /\ Len(processed) >= 1
    /\ Len(skipped) >= 1
    /\ Oids(pending_abilities) = SkippedOids(skipped)

\* an ability block is stored for the location and the ability of action p
AbilityBlockStored(rb, p) == RbKey(p.channel_id, p.ability) \in DOMAIN rb

\* a visit block is stored for the location
VisitBlockStored(rb, ch) ==
    ChKey(ch) \in DOMAIN rb /\ rb[ChKey(ch)].until # NoUntil

\* C6: in a resolve cycle an action is applied if and only if neither an
\* ability block for its location and ability nor a visit block for its
\* location is stored; with an ability block stored the reason of the skip
\* is ability_blocked, with only a visit block stored it is visit_blocked.
C6_AppliedIffUnblocked ==
    [][ResolveCycle
       => \A i \in DOMAIN pending_abilities :
             LET p == pending_abilities[i]
                 ab == AbilityBlockStored(roleblocks, p)
                 vb == VisitBlockStored(roleblocks, p.channel_id)
             IN  /\ p.oid \in Oids(processed') <=> (~ab /\ ~vb)
                 /\ ab => <<p, "ability_blocked">> \in Range(skipped')
                 /\ (~ab /\ vb) => <<p, "visit_blocked">> \in Range(skipped')]_vars

\* a cycle has just applied one action and skipped another as
\* ability_blocked although a visit block is stored for its location too
C6_Witness ==
    /\ reply.msg = "Processed"
    /\ Len(processed) >= 1
    /\ \E i \in DOMAIN skipped :
          /\ skipped[i][2] = "ability_blocked"
          /\ VisitBlockStored(roleblocks, skipped[i][1].channel_id)

\* C7: an action that a cycle skipped because of a block, and that no
\* block stands in the way of any more (the block expired in a sweep or was
\* removed by .unblock / .unvisitblock), is applied by the next cycle as the
\* queue entry it was, without a new .use.
C7_RetryAfterUnblock ==
    [][ResolveCycle
       => \A i \in DOMAIN pending_abilities :
             LET p == pending_abilities[i]
             IN  (/\ p.oid \in skip_log
                  /\ ~AbilityBlockStored(roleblocks, p)
                  /\ ~VisitBlockStored(roleblocks, p.channel_id))
                 => /\ p.oid \in Oids(processed')
                    /\ p.oid \notin Oids(pending_abilities')]_vars

\* after the sweep for Night 1 a cycle has applied an action that an
\* earlier cycle had skipped
C7_Witness ==
    /\ reply.msg = "Processed"
    /\ current_phase = <<"long", "night", 1>>
    /\ \E i \in DOMAIN processed : processed[i].oid \in skip_log

----------------------------------------------------------------------------
(* Claims on the resolution order *)

\* the priority table of the order
CategoryPriority(category) ==
    CASE category = "Manipulation" -> 1
      [] category = "Blocking" -> 2
      [] category = "Protection" -> 3
      [] category = "Curing" -> 4
      [] category = "Lethal" -> 5
      [] category = "Other" -> 6
      [] category = "Transport" -> 7
      [] OTHER -> 99

\* (category_priority, team_tiebreak_index, submitted_at); the tie-break
\* index is the one the resolver computes for the action
OrderKey(a) == <<CategoryPriority(a.category), sort_key(a)[2], a.timestamp>>

LexLess(x, y) ==
    \E n \in 1..3 : x[n] < y[n] /\ \A m \in 1..(n - 1) : x[m] = y[m]

\* the position of the action with this oid in a queue
PositionIn(queue, oid) == CHOOSE i \in DOMAIN queue : queue[i].oid = oid

OidsInOrder(entries) == [i \in DOMAIN entries |-> entries[i].oid]

\* the queue rearranged by the permutation f of its positions
Rearranged(queue, f) == [i \in DOMAIN queue |-> queue[f[i]]]

\* two queues agree on the relative order of the actions with equal keys
SameOrderOfEquals(q1, q2) ==
    \A a, b \in Range(q1) :
        (OrderKey(a) = OrderKey(b)
            /\ PositionIn(q1, a.oid) < PositionIn(q1, b.oid))
        => PositionIn(q2, a.oid) < PositionIn(q2, b.oid)

\* C8: with nothing blocked, a cycle resolves the pending actions in the
\* lexicographic order of (category_priority, team_tiebreak_index,
\* submitted_at), category_priority taken from the table and 99 for any
\* other category: a is resolved before b whenever key(a) < key(b), actions
\* with equal keys keep their order of submission, and every arrangement of
\* the same actions that keeps that order yields the same sequence.
C8_LexicographicOrder ==
    [][ResolveCycle
       => /\ Oids(processed') = Oids(pending_abilities)
          /\ Len(processed') = Len(pending_abilities)
          /\ \A i, j \in DOMAIN processed' :
                /\ LexLess(OrderKey(processed'[i]), OrderKey(processed'[j]))
                      => i < j
                /\ (i < j /\ OrderKey(processed'[i]) = OrderKey(processed'[j]))
                      => PositionIn(pending_abilities, processed'[i].oid)
                            < PositionIn(pending_abilities, processed'[j].oid)
          /\ \A f \in Permutations(DOMAIN pending_abilities) :
                SameOrderOfEquals(pending_abilities,
                                  Rearranged(pending_abilities, f))
                => OidsInOrder(sorted(Rearranged(pending_abilities, f)))
                      = OidsInOrder(processed')]_vars

\* a cycle has just resolved two actions of one category and one team in
\* the order of their timestamps, the later submission first
C8_Witness ==
    /\ reply.msg = "Processed"
    /\ Len(processed) = 2
    /\ processed[1].oid = 2
    /\ processed[1].category = processed[2].category
    /\ processed[1].team = processed[2].team
    /\ processed[1].timestamp < processed[2].timestamp

\* the place of a team in the order of the category: Lethal has the order
\* sublime, shadow, dark, neutral and every other category the order dark,
\* rk, sublime, neutral; any other team and no team come last
TeamRank(category, team) ==
    LET order == IF category = "Lethal"
                 THEN <<"sublime", "shadow", "dark", "neutral">>
                 ELSE <<"dark", "rk", "sublime", "neutral">>
    IN  IF \E n \in DOMAIN order : order[n] = team
        THEN CHOOSE n \in DOMAIN order : order[n] = team
        ELSE 5

\* C9: with nothing blocked, two pending actions of one category are
\* resolved in the team order of that category, whatever the order of
\* their submission: Lethal actions by sublime < shadow < dark < neutral <
\* other, actions of any other category by dark < rk < sublime < neutral <
\* other.
C9_TeamTables ==
    [][ResolveCycle
       => \A i, j \in DOMAIN processed' :
             (/\ processed'[i].category = processed'[j].category
              /\ TeamRank(processed'[i].category, processed'[i].team)
                    < TeamRank(processed'[j].category, processed'[j].team))
             => i < j]_vars

----------------------------------------------------------------------------
(* Claims on the visit pool in a resolve cycle *)

\* the location has no inventory entry, or every visit kind of its entry
\* is absent or zero
NoVisitsHeld(vis, ch) ==
    \/ ch \notin DOMAIN vis
    \/ \A t \in DOMAIN vis[ch] : vis[ch][t][1] = 0

\* C10: an unblocked pending action is applied by a resolve cycle also when
\* its location has no inventory entry or holds no visit of any kind, and
\* the pool of such a location is left as it was: no entry is created for
\* it and every kind is still absent or zero.
C10_ConsumptionIsSideEffect ==
    [][ResolveCycle
       => \A i \in DOMAIN pending_abilities :
             LET p == pending_abilities[i]
                 ch == p.channel_id
             IN  (~AbilityBlockStored(roleblocks, p)
                     /\ ~VisitBlockStored(roleblocks, ch))
                 => /\ p.oid \in Oids(processed')
                    /\ NoVisitsHeld(visits, ch)
                          => /\ NoVisitsHeld(visits', ch)
                             /\ ch \in DOMAIN visits' <=> ch \in DOMAIN visits]_vars

\* a cycle has just applied an action of an RC that has no inventory entry
C10_Witness ==
    /\ reply.msg = "Processed"
    /\ \E i \in DOMAIN processed : processed[i].channel_id \notin DOMAIN visits

----------------------------------------------------------------------------
(* Claims on the preference order of the visit pool *)

\* the balance of a kind: the number the stored count starts with, zero
\* when the kind is absent
Balance(pool, t) ==
    IF t \in DOMAIN pool /\ pool[t][1] > 0 THEN pool[t][1] ELSE 0

Balances(vis, ch) ==
    [i \in DOMAIN VisitTypes |-> Balance(PoolOf(vis, ch), VisitTypes[i])]

\* one unit off the first kind of the order with a positive balance
Spend(bal) ==
    LET avail == {i \in DOMAIN bal : bal[i] > 0}
    IN  IF avail = {} THEN bal
        ELSE LET first == CHOOSE i \in avail : \A j \in avail : i <= j
             IN  [bal EXCEPT ![first] = @ - 1]

RECURSIVE SpendTimes(_, _)
SpendTimes(bal, n) == IF n = 0 THEN bal ELSE SpendTimes(Spend(bal), n - 1)

\* every count of the pool starts with a number
NumericPool(pool) == \A t \in DOMAIN pool : pool[t][1] >= 0

\* the number of entries of `done` that belong to RC ch
AppliedAt(done, ch) ==
    Cardinality({i \in DOMAIN done : done[i].channel_id = ch})

\* C11: in a resolve cycle every applied action takes exactly one unit from
\* the first kind, in the order regular, stealth, forced, both, that has a
\* positive balance in the pool of its location and leaves the other kinds
\* as they were; a kind earlier in the order with no balance left does not
\* keep a later kind from being consumed.
C11_PreferenceOrder ==
    [][ResolveCycle
       => \A ch \in Channels :
             NumericPool(PoolOf(visits, ch))
             => Balances(visits', ch)
                   = SpendTimes(Balances(visits, ch),
                                AppliedAt(processed', ch))]_vars

----------------------------------------------------------------------------
(* Claims on the visit counts *)

\* the counter of kind `kind` of the player with key k
Counter(cn, k, kind) == get_counts(cn, k)[kind]

AllKeys == {_key(g, m) : g \in Guilds, m \in Members}

\* C12: consume(actor, kind) takes exactly one unit and returns true iff the
\* counter was above zero, otherwise it returns false and the counter keeps
\* its value; it never takes a counter from a non-negative value to a
\* negative one, and every other kind and every other actor keep their
\* counters.
C12_ConsumeAtomic ==
    [][\A g \in Guilds, m \in Members, kind \in VisitKinds :
          consume(g, m, kind)
          => LET before == Counter(counts, _key(g, m), kind)
                 after == Counter(counts', _key(g, m), kind)
             IN  /\ reply'.a = 1 <=> before > 0
                 /\ before > 0 => after = before - 1
                 /\ ~(before > 0) => after = before
                 /\ before >= 0 => after >= 0
                 /\ \A k \in AllKeys, other \in VisitKinds :
                       (k # _key(g, m) \/ other # kind)
                       => Counter(counts', k, other)
                             = Counter(counts, k, other)]_vars

\* a consume has just been answered with false for a player who holds
\* another kind, and one has been answered with true before
C12_Witness ==
    /\ reply.msg = "consume_visit returned"
    /\ reply.a = 0
    /\ \E k \in DOMAIN counts : \E kind \in VisitKinds :
          counts[k][kind] = 0 /\ \E other \in VisitKinds : counts[k][other] > 0

\* C13: every counter of every player is a non-negative integer in every
\* reachable state, whatever grants (also with a negative amount), incomes,
\* refills and consumes came before; a negative grant that would take a
\* counter below zero leaves it at zero.
C13_CountersNonNegative ==
    \A k \in DOMAIN counts : \A kind \in VisitKinds : counts[k][kind] >= 0

\* the income the cog reports for a player: zero without a stored entry
ConfiguredIncome(inc, k) ==
    IF k \in DOMAIN inc THEN inc[k]
    ELSE [night_income |-> 0, day_income |-> 0]

\* a command moves the clock of guild g to the phase tok
Advance(g, tok) ==
    \/ phase_set(g, tok)
    \/ NextPhase(phases[g].phase) = tok /\ phase_next(g)
    \/ tok \in DayNight /\ set_day_night(g, tok)

\* C14: right after the clock of a guild advances to night every player of
\* the guild with an inventory entry holds exactly the configured night
\* income as night count, whatever was held before; likewise the day count
\* is the configured day income after an advance to day; an advance to
\* pregame or postgame changes no counter.
C14_RefillResets ==
    [][\A g \in Guilds : \A i \in DOMAIN PHASE_ORDER :
          LET tok == PHASE_ORDER[i]
          IN  Advance(g, tok)
              => /\ tok = "night"
                    => \A k \in DOMAIN counts' :
                          k[1] = g
                          => counts'[k].night
                                = ConfiguredIncome(income, k).night_income
                 /\ tok = "day"
                    => \A k \in DOMAIN counts' :
                          k[1] = g
                          => counts'[k].day
                                = ConfiguredIncome(income, k).day_income
                 /\ tok \notin DayNight => counts' = counts]_vars

----------------------------------------------------------------------------
(* Claims on the sessions *)

\* the guild an RC is a channel of
SessionOf(ch) == IF ch = "c1" THEN "g1" ELSE "g2"

RECURSIVE PendingOf(_, _)
PendingOf(queue, g) ==
    IF queue = <<>> THEN <<>>
    ELSE IF SessionOf(Head(queue).channel_id) = g
         THEN <<Head(queue)>> \o PendingOf(Tail(queue), g)
         ELSE PendingOf(Tail(queue), g)

BlocksOf(rb, g) == [k \in {k \in DOMAIN rb : SessionOf(k[1]) = g} |-> rb[k]]

PoolsOf(vis, g) == [ch \in {ch \in DOMAIN vis : SessionOf(ch) = g} |-> vis[ch]]

CountsOf(cn, g) == [k \in {k \in DOMAIN cn : k[1] = g} |-> cn[k]]

\* the pending queue, the blocks, the inventories and the phase of guild g
SessionView(g) ==
    <<PendingOf(pending_abilities, g), BlocksOf(roleblocks, g),
      PoolsOf(visits, g), CountsOf(counts, g), phases[g]>>

\* a command issued in guild g that names the guild or one of its channels
CommandIn(g) ==
    \/ \E i \in DOMAIN PHASE_ORDER : phase_set(g, PHASE_ORDER[i])
    \/ phase_next(g)
    \/ phase_reset(g)
    \/ \E phase \in DayNight : set_day_night(g, phase)
    \/ \E m \in Members, kind \in VisitKinds, amount \in {-1, 1, 2} :
          visits_give(g, m, kind, amount)
    \/ \E ch \in Channels :
          /\ SessionOf(ch) = g
          /\ \/ \E typed \in {Key1, KeyA1} : use(ch, OwnerOf(ch), typed, clock + 1)
             \/ \E key \in {Key1, KeyA1}, until \in UntilTokens \cup {<<"short", "n", 1>>} :
                   block_ability(ch, key, until, "end")
             \/ \E key \in {Key1, KeyA1} : unblock_ability(ch, key)

\* C15: an operation of one guild - a submitted action, a resolve cycle, an
\* advance or reset of the phase with its sweep and refill, a block or
\* unblock, a grant of visits - leaves the pending queue, the blocks, the
\* inventories and the phase of every other guild as they were.  A resolve
\* cycle names no guild: it has to leave all guilds but one untouched.
C15_SessionIndependence ==
    [][/\ \A g \in Guilds :
             CommandIn(g)
             => \A h \in Guilds \ {g} : SessionView(h)' = SessionView(h)
       /\ ResolveCycle
             => \E g \in Guilds :
                  \A h \in Guilds \ {g} : SessionView(h)' = SessionView(h)]_vars

----------------------------------------------------------------------------
(* Claims on the ability keys *)

\* a block is stored for the ability of p at its RC under "N" or under "AN"
BlockedInEitherForm(rb, p) ==
    \/ RbKey(p.channel_id, p.ability) \in DOMAIN rb
    \/ RbKey(p.channel_id, AltForm(p.ability)) \in DOMAIN rb

\* C16: "1" and "A1" name the same ability everywhere: a block placed on an
\* RC with either form makes a resolve cycle skip every pending action for
\* that ability at that RC as ability_blocked, whichever form the ability
\* was assigned or submitted with, and an unblock with either form removes
\* the block.
C16_CanonicalKeys ==
    [][/\ ResolveCycle
          => \A i \in DOMAIN pending_abilities :
                BlockedInEitherForm(roleblocks, pending_abilities[i])
                => \E j \in DOMAIN skipped' :
                      skipped'[j] = <<pending_abilities[i], "ability_blocked">>
       /\ \A rc \in Channels, key \in {Key1, KeyA1} :
             unblock_ability(rc, key)
             => /\ RbKey(rc, key) \notin DOMAIN roleblocks'
                /\ RbKey(rc, AltForm(key)) \notin DOMAIN roleblocks']_vars

\* an assignment of the RC has the number of `key`, as "N" or as "AN"
Collides(channel_abilities, key) ==
    \E k \in DOMAIN channel_abilities : k[2] = key[2]

NoTwoWithOneNumber ==
    \A ch \in DOMAIN abilities : \A k1, k2 \in DOMAIN abilities[ch] :
       k1[2] = k2[2] => k1 = k2

\* C17: whatever abilities were assigned and removed, no RC holds two
\* assignments with the same number ("N" and "AN" count as one number); an
\* assignment whose number collides with one the RC holds is rejected, as a
\* duplicate number when the request is otherwise valid, and leaves the
\* assignments of the RC as they were; a removal deletes only the named
\* assignment and leaves every sibling under its key.
C17_OneAssignmentPerNumber ==
    /\ []NoTwoWithOneNumber
    /\ [][/\ \A rc \in Channels, key \in {Key1, KeyA1, Key2} :
             \A category \in {"lethal", "bogus", "block", "Other"} :
                (give_ability(rc, key, category)
                    /\ Collides(AbilitiesOf(abilities, rc), key))
                => /\ AbilitiesOf(abilities', rc) = AbilitiesOf(abilities, rc)
                   /\ reply'.msg \in {"Ability number already assigned",
                                      "Invalid category"}
                   /\ category # "bogus"
                         => reply'.msg = "Ability number already assigned"
          /\ \A rc \in Channels, key \in {Key1, KeyA1, Key2} :
                remove_ability(rc, key)
                => /\ AbilitiesOf(abilities', rc)
                         = Drop(AbilitiesOf(abilities, rc), key)
                   /\ \A ch \in Channels \ {rc} :
                         AbilitiesOf(abilities', ch) = AbilitiesOf(abilities, ch)]_vars

\* "A1" has just been refused for an RC that holds "1" next to "2"
C17_Witness ==
    /\ reply.msg = "Ability number already assigned"
    /\ DOMAIN AbilitiesOf(abilities, "c1") = {Key1, Key2}

\* C18: a submitted action that names an ability the submitting RC does not
\* hold, under "N" or under "AN", is refused as not found and changes
\* nothing: the pending queue, the table of tracked actions and the action
\* id counter are what they were, and so is the rest of the state.
C18_UnknownAbilityRejected ==
    [][\A ch \in Channels, user \in Members, typed \in {Key1, KeyA1, Key2} :
          (use(ch, user, typed, clock + 1)
              /\ ~Collides(AbilitiesOf(abilities, ch), typed))
          => /\ reply'.msg = "Ability not found for this RC"
             /\ UNCHANGED <<pending_abilities, actions, next_action_id>>
             /\ UNCHANGED <<phaseVars, visitVars, queueVars, setupVars,
                            knockVars, visits, roleblocks>>]_vars

\* "2" has just been refused for an RC that holds another ability and has
\* an action pending
C18_Witness ==
    /\ reply.msg = "Ability not found for this RC"
    /\ DOMAIN AbilitiesOf(abilities, "c1") = {KeyA1}
    /\ pending_abilities # <<>>

----------------------------------------------------------------------------
(* Claims on the phase clock *)

\* C19: .phase set with a token (as the command lower-cases it) that is
\* none of pregame, day, night and postgame is refused as an unknown phase
\* and changes nothing: the phase token and the cycle are what they were,
\* no block is swept and no inventory is refilled.
C19_UnknownPhaseRejected ==
    [][\A g \in Guilds, tok \in {"dusk", "midnight", ""} :
          phase_set(g, tok)
          => /\ reply'.msg = "Unknown phase"
             /\ UNCHANGED <<phases, current_phase, visit_phase>>
             /\ UNCHANGED <<roleblocks, counts, income, visits>>]_vars

\* an unknown token has just been refused while a block with an expiry is
\* stored and the clock is past pregame
C19_Witness ==
    /\ reply.msg = "Unknown phase"
    /\ phases["g1"].phase \in DayNight
    /\ \E k \in DOMAIN roleblocks : HasExpiryEpoch(roleblocks[k])

\* C20: when the clock of a guild advances to day or night, the new cycle is
\* 1 if the old token was pregame or postgame, the old cycle plus one on the
\* transition from night to day and only there, and the old cycle on every
\* other transition (day to night, day to day, night to night); the token
\* becomes the target.
C20_CycleRule ==
    [][\A g \in Guilds, tok \in DayNight :
          Advance(g, tok)
          => /\ phases'[g].phase = tok
             /\ phases'[g].count
                   = IF phases[g].phase \in {"pregame", "postgame"} THEN 1
                     ELSE IF phases[g].phase = "night" /\ tok = "day"
                          THEN phases[g].count + 1
                          ELSE phases[g].count]_vars

\* the clock went from a night to the day of the next cycle
C20_Witness == phases["g1"] = [phase |-> "day", count |-> MaxCycle]

----------------------------------------------------------------------------
(* Claims on the epochs *)

\* the letter of the short form of a phase word
ShortWord(word) == IF word = "day" THEN "d" ELSE "n"

\* C21: the epoch of Day n is 2(n-1) and the epoch of Night n is 2(n-1)+1
\* for every n >= 1, so Day n < Night n < Day n+1; the epoch of the reading
\* of the clock and the epoch of an until token that names the same phase,
\* in the short form (d2, n1) or the long form (day 2, night 1), are equal;
\* pregame and postgame have no epoch.
C21_EpochMapping ==
    /\ \A n \in 1..(MaxCycle + 1) :
          /\ _phase_epoch(<<"long", "day", n>>) = Some(2 * (n - 1))
          /\ _phase_epoch(<<"long", "night", n>>) = Some(2 * (n - 1) + 1)
          /\ _phase_epoch(<<"long", "day", n>>)[1]
                < _phase_epoch(<<"long", "night", n>>)[1]
          /\ _phase_epoch(<<"long", "night", n>>)[1]
                < _phase_epoch(<<"long", "day", n + 1>>)[1]
          /\ \A word \in DayNight :
                /\ _until_to_epoch(<<"short", ShortWord(word), n>>)
                      = _phase_epoch(<<"long", word, n>>)
                /\ _until_to_epoch(<<"long", word, n>>)
                      = _phase_epoch(<<"long", word, n>>)
    /\ \A g \in Guilds :
          LET reading == _get_phase_for_guild(phases, g)
          IN  /\ phases[g].phase \notin DayNight => _phase_epoch(reading) = None
              /\ phases[g].phase = "day"
                    => _phase_epoch(reading) = Some(2 * (phases[g].count - 1))
              /\ phases[g].phase = "night"
                    => _phase_epoch(reading) = Some(2 * (phases[g].count - 1) + 1)
              /\ \A k \in DOMAIN roleblocks :
                    (/\ phases[g].phase \in DayNight
                     /\ roleblocks[k].until[1] \in {"short", "long"}
                     /\ roleblocks[k].until[2]
                           \in {phases[g].phase, ShortWord(phases[g].phase)}
                     /\ roleblocks[k].until[3] = phases[g].count)
                    => _until_to_epoch(roleblocks[k].until) = _phase_epoch(reading)

\* the clock reads Night 1 and a block is stored until n1
C21_Witness ==
    /\ phases["g1"] = [phase |-> "night", count |-> 1]
    /\ \E k \in DOMAIN roleblocks : roleblocks[k].until = <<"short", "n", 1>>

\* the epoch of the reading of the clock of guild g, for a day or a night
ReadingEpoch(ph, g) == _phase_epoch(_get_phase_for_guild(ph, g))[1]

\* C22: while the clock of a guild goes from a day or a night to a day or a
\* night, the epoch of its reading goes up by exactly 1 with every
\* transition that changes the token and never goes down.
C22_EpochMonotone ==
    [][\A g \in Guilds, tok \in DayNight :
          (Advance(g, tok) /\ phases[g].phase \in DayNight)
          => /\ tok # phases[g].phase
                   => ReadingEpoch(phases', g) = ReadingEpoch(phases, g) + 1
             /\ tok = phases[g].phase
                   => ReadingEpoch(phases', g) = ReadingEpoch(phases, g)
             /\ ReadingEpoch(phases', g) >= ReadingEpoch(phases, g)]_vars

\* the clock went night, day, night without leaving the series
C22_Witness == phases["g1"] = [phase |-> "night", count |-> MaxCycle]

\* C23: .phase reset sets the cycle counter of the guild to 1 and leaves its
\* phase token as it was; it changes no inventory counter, no pending action
\* and no knock ticket.
C23_ResetCycle ==
    [][\A g \in Guilds :
          phase_reset(g)
          => /\ phases'[g].count = 1
             /\ phases'[g].phase = phases[g].phase
             /\ UNCHANGED <<counts, income, visits>>
             /\ UNCHANGED <<pending_abilities, actions, next_action_id>>
             /\ UNCHANGED <<pending, next_msg_id>>]_vars

\* the counter has just been reset during a day while the player holds
\* a visit, an action is pending and a knock waits for its answer
C23_Witness ==
    /\ reply.msg = "Phase counter reset"
    /\ phases["g1"] = [phase |-> "day", count |-> 1]
    /\ \E k \in DOMAIN counts : counts[k].night > 0
    /\ pending_abilities # <<>>
    /\ DOMAIN pending # {}

----------------------------------------------------------------------------
(* Claims on the blocks that do not expire *)

\* the step is .unblock or .unvisitblock for the block stored under k
ExplicitUnblock(k) ==
    \/ \E rc \in Channels, key \in {Key1, KeyA1} :
          RbKey(rc, key) = k /\ unblock_ability(rc, key)
    \/ \E rc \in Channels : ChKey(rc) = k /\ unvisit_block(rc)

\* the step is .block or .visitblock for the key k
ExplicitBlock(k) ==
    \/ \E rc \in Channels, key \in {Key1, KeyA1}, until \in UntilTokens :
          \E boundary \in {"end", "beginning"} :
             RbKey(rc, key) = k /\ block_ability(rc, key, until, boundary)
    \/ \E rc \in Channels, until \in UntilTokens :
          ChKey(rc) = k /\ visit_block(rc, until)

\* the block stored under k is no longer there
Gone(rb, k) == k \notin DOMAIN rb \/ rb[k].until = NoUntil

\* C24: a block whose expiry is "forever" is not removed by any phase
\* advance, reset or sweep: it is gone only after an explicit unblock, and
\* it is changed only by a new block command for the same key.
C24_ForeverStays ==
    [][\A k \in DOMAIN roleblocks :
          roleblocks[k].until = Forever
          => /\ Gone(roleblocks', k) => ExplicitUnblock(k)
             /\ (~Gone(roleblocks', k) /\ roleblocks'[k] # roleblocks[k])
                   => ExplicitBlock(k)]_vars

\* a forever block is stored and the queue has swept for Day 2
C24_Witness ==
    /\ \E k \in DOMAIN roleblocks : roleblocks[k].until = Forever
    /\ current_phase = <<"long", "day", MaxCycle>>

\* C25: a block whose until token cannot be parsed into an epoch is left in
\* place by every sweep, it is gone only after an explicit unblock, and its
\* presence does not keep the same sweep from removing the blocks that are
\* due.
C25_UnparsableStays ==
    [][/\ \A k \in DOMAIN roleblocks :
             roleblocks[k].until = Junk
             => /\ Gone(roleblocks', k) => ExplicitUnblock(k)
                /\ (~Gone(roleblocks', k) /\ roleblocks'[k] # roleblocks[k])
                      => ExplicitBlock(k)
       /\ \A g \in Guilds :
             (SweptFor(g) /\ \E k \in DOMAIN roleblocks : roleblocks[k].until = Junk)
             => \A j \in DOMAIN roleblocks :
                   (/\ HasExpiryEpoch(roleblocks[j])
                    /\ ~NotDue(roleblocks[j], ClockEpoch(phases'[g])))
                   => j \notin DOMAIN roleblocks']_vars

\* a sweep has just removed a block and left the one it cannot parse
C25_Witness ==
    /\ reply.msg = "Phase set"
    /\ reply.a >= 1
    /\ \E k \in DOMAIN roleblocks : roleblocks[k].until = Junk

\* the readings the clock can give the sweep
Readings ==
    {<<"long", word, n>> : word \in DayNight, n \in 1..(MaxCycle + 1)}
        \cup {<<"bare", "pregame", 0>>, <<"bare", "postgame", 0>>}

\* C26: the sweep is idempotent: a second sweep with the same phase reading
\* removes nothing, the blocks after the second sweep are the blocks after
\* the first.
C26_SweepIdempotent ==
    \A reading \in Readings :
       process_phase_change(process_phase_change(roleblocks, reading), reading)
          = process_phase_change(roleblocks, reading)

\* two blocks are stored that a sweep for Day 2 removes
C26_Witness ==
    LET reading == <<"long", "day", MaxCycle>>
    IN  Cardinality(DOMAIN roleblocks
                       \ DOMAIN process_phase_change(roleblocks, reading)) >= 2

----------------------------------------------------------------------------
(* Claims on the plain knock *)

\* C27: during a night or a day, a knock without modifiers by a player who
\* is not an overseer succeeds exactly when the player holds a visit of the
\* kind of the phase of the clock (a night visit during night, a day visit
\* during day); otherwise it is refused for want of visits and creates no
\* ticket.  A successful knock creates exactly one ticket and neither moves
\* the player nor changes a counter.
C27_PlainKnockNeedsVisit ==
    [][\A g \in Guilds, m \in Members :
          (knock(g, m, FALSE, <<>>, "h2", TRUE) /\ phases[g].phase \in DayNight)
          => LET held == Counter(counts, _key(g, m), phases[g].phase) > 0
             IN  /\ held => /\ reply'.msg = "Knock sent"
                            /\ next_msg_id \notin DOMAIN pending
                            /\ DOMAIN pending' = DOMAIN pending \cup {next_msg_id}
                            /\ \A ref \in DOMAIN pending : pending'[ref] = pending[ref]
                 /\ ~held => /\ reply'.msg = "has no visits remaining"
                             /\ pending' = pending
                 /\ manor' = manor
                 /\ counts' = counts]_vars

(* Claims on the replies to a knock *)

\* the ticket is pending and no reply to it has been handled yet
Requested(ref) ==
    /\ ref \in DOMAIN pending
    /\ sent[ref].opened = 0
    /\ sent[ref].refused = 0

\* every counter but the one of player k and kind is as it was
OnlyCounterChanged(k, kind) ==
    \A other \in AllKeys, x \in VisitKinds :
        (other # k \/ x # kind) => Counter(counts', other, x) = Counter(counts, other, x)

NoCounterChanged ==
    \A k \in AllKeys, x \in VisitKinds : Counter(counts', k, x) = Counter(counts, k, x)

C29_RefuseChangesNothingElse ==
    [][\A i \in 1..MaxReplies :
        /\ \A ref \in 1..MaxKnocks :
              (RefuseStart(i, ref) /\ Requested(ref))
              => /\ tasks'[i] = Task("announce_refused", ref,
                                     pending[ref].player_id, pending[ref].target_id)
                 /\ counts' = counts
                 /\ manor' = manor
                 /\ pending' = pending
        /\ RefuseFinish(i)
              => /\ pending' = Drop(pending, tasks[i].ref)
                 /\ tasks[i].ref \notin DOMAIN pending'
                 /\ counts' = counts
                 /\ manor' = manor]_vars

\* a ticket of a player who holds a visit has been refused and removed
\* while another ticket of the player is still pending
C29_Witness ==
    /\ 1 \in DOMAIN sent
    /\ sent[1] = [opened |-> 0, refused |-> 1, consumed |-> 0, moved |-> 0]
    /\ 1 \notin DOMAIN pending
    /\ 2 \in DOMAIN pending
    /\ \E kind \in DayNight : Counter(counts, _key("g1", "m1"), kind) > 0
    /\ \E i \in 1..MaxReplies : tasks[i].pc = "done" /\ tasks[i].ref = 1

\* C30: a reply that does not refer to a requested ticket (a message that
\* is no ticket, or a ticket that a reply has already opened or refused) is
\* ignored without a word: no ticket, no visit counter and no location
\* changes, and nothing is sent.
C30_StaleReplyIgnored ==
    [][\A i \in 1..MaxReplies, ref \in 1..MaxKnocks :
          ((OpenStart(i, ref) \/ RefuseStart(i, ref)) /\ ~Requested(ref))
          => /\ tasks'[i] = Ignored(ref)
             /\ pending' = pending
             /\ NoCounterChanged
             /\ manor' = manor
             /\ sent' = sent
             /\ reply' = reply]_vars

----------------------------------------------------------------------------
(* Claims on the enchanted knock *)

\* C31: a knock with modifiers is executed at once: when it succeeds the
\* player is in the target manor right after the command, and whether it
\* succeeds or not no ticket is created for it (the pending tickets, the
\* message counter and the handlers of replies are as before, so no reply
\* can refer to it); when an overseer sends it, no visit counter of the
\* player changes.
C31_EnchantedKnockIsDirect ==
    [][\A overseer \in BOOLEAN, enchants \in EnchantLists \ {<<>>},
          ok_move \in BOOLEAN :
          knock("g1", "m1", overseer, enchants, "h2", ok_move)
          => /\ pending' = pending
             /\ next_msg_id' = next_msg_id
             /\ sent' = sent
             /\ tasks' = tasks
             /\ reply'.msg \in {"Knock (enchanted) executed",
                                "Enchanted knock failed",
                                "lacks required enchantment(s)"}
             /\ reply'.msg = "Knock (enchanted) executed" => manor'["m1"] = "h2"
             /\ overseer => counts' = counts]_vars

\* an enchanted knock has just moved a player who was never granted a
\* visit (an overseer sent it) and no ticket was ever posted
C31_Witness ==
    /\ reply.msg = "Knock (enchanted) executed"
    /\ manor["m1"] = "h2"
    /\ counts = Empty
    /\ pending = Empty
    /\ next_msg_id = 1

----------------------------------------------------------------------------
(* Claims on the resolve cycle *)

\* the queue without the action oid
Without(queue, oid) == SelectSeq(queue, LAMBDA e : e.oid # oid)

\* the list of skips without the skip of the action oid
SkipsWithout(sk, oid) == SelectSeq(sk, LAMBDA e : e[1].oid # oid)

\* what the loop of a cycle started now on the queue would leave
CycleOn(queue) ==
    RunCycle(roleblocks,
             [visits |-> visits, processed |-> <<>>, skipped |-> <<>>],
             sorted(queue))

EntriesOf(queue, ch) == SelectSeq(queue, LAMBDA e : e.channel_id = ch)

\* the pools after n runs of "consume a visit if available for this RC"
RECURSIVE ConsumeTimes(_, _, _)
ConsumeTimes(vis, ch, n) ==
    IF n = 0 THEN vis ELSE ConsumeTimes(ConsumeVisit(vis, ch), ch, n - 1)

\* no stored block stands in the way of the actions of RC ch
Unblocked(ch) ==
    /\ ~VisitBlockStored(roleblocks, ch)
    /\ \A i \in DOMAIN pending_abilities :
          pending_abilities[i].channel_id = ch
          => ~AbilityBlockStored(roleblocks, pending_abilities[i])

\* C33: .use never merges submissions: an accepted .use adds one entry
\* with a new id to the queue and keeps every entry that was there, also
\* when the same player has already queued the same ability of the same RC,
\* so k submissions leave k entries; a resolve cycle in which the RC and the
\* ability are not blocked applies all k, and each makes its own attempt to
\* take one visit from the pool of the RC.
C33_NoDeduplication ==
    [][/\ \A ch \in Channels :
             (use(ch, OwnerOf(ch), Key1, clock + 1)
                 /\ reply'.msg = "Action Started")
             => /\ Len(pending_abilities') = Len(pending_abilities) + 1
                /\ SubSeq(pending_abilities', 1, Len(pending_abilities))
                      = pending_abilities
                /\ pending_abilities'[Len(pending_abilities')].oid
                      \notin Oids(pending_abilities)
                /\ Len(EntriesOf(pending_abilities', ch))
                      = Len(EntriesOf(pending_abilities, ch)) + 1
                /\ Cardinality(Oids(pending_abilities'))
                      = Len(pending_abilities')
       /\ ResolveCycle
             => \A ch \in Channels :
                   Unblocked(ch)
                   => /\ Oids(EntriesOf(pending_abilities, ch)) \subseteq Oids(processed')
                      /\ AppliedAt(processed', ch)
                            = Len(EntriesOf(pending_abilities, ch))
                      /\ PoolOf(visits', ch)
                            = PoolOf(ConsumeTimes(visits, ch,
                                        Len(EntriesOf(pending_abilities, ch))), ch)
                      /\ NumericPool(PoolOf(visits, ch))
                            => Balances(visits', ch)
                                  = SpendTimes(Balances(visits, ch),
                                        Len(EntriesOf(pending_abilities, ch)))]_vars

\* three submissions of the player of c1 for the same ability were all
\* applied by one cycle, which took the two visits of the pool of c1
C33_Witness ==
    /\ reply.msg = "Processed"
    /\ Len(processed) = MaxActions
    /\ \A i \in DOMAIN processed :
          /\ processed[i].channel_id = "c1"
          /\ processed[i].ability = Key1
          /\ processed[i].user_id = OwnerOf("c1")
    /\ "c1" \in DOMAIN visits
    /\ "regular" \notin DOMAIN visits["c1"]
    /\ pending_abilities = <<>>

----------------------------------------------------------------------------
(* Claims on the visits a knock costs *)

\* C34: when a reply "open" is handled for a requested ticket that an
\* overseer posted on a player's behalf, no visit counter of the player
\* changes and the handler goes on to move the player, also when the
\* player holds no visit.
C34_OverseerKnockIsFree ==
    [][\A i \in 1..MaxReplies, ref \in 1..MaxKnocks :
          (OpenStart(i, ref) /\ Requested(ref)
              /\ pending[ref].initiator_is_overseer)
          => /\ NoCounterChanged
             /\ tasks'[i] = Task("announce_opened", ref,
                                 pending[ref].player_id, pending[ref].target_id)]_vars

\* C35: when a player (not an overseer) knocks with modifiers, holds every
\* modifier asked for, and the move itself fails, every visit counter of
\* the player is after the command what it was before it, and the player
\* is told that the knock failed.
C35_RefundOnFailedMove ==
    [][\A enchants \in EnchantLists \ {<<>>} :
          (knock("g1", "m1", FALSE, enchants, "h2", FALSE)
              /\ EnchantsOk(counts, _key("g1", "m1"), enchants))
          => /\ NoCounterChanged
             /\ reply'.msg = "Enchanted knock failed"
             /\ pending' = pending]_vars

\* an enchanted knock has just failed to move a player who holds a stealth
\* and a forced visit
C35_Witness ==
    /\ reply.msg = "Enchanted knock failed"
    /\ manor["m1"] = Nowhere
    /\ Counter(counts, _key("g1", "m1"), "stealth") = 1
    /\ Counter(counts, _key("g1", "m1"), "forced") = 1

\* the units the pool of RC ch holds, all kinds together
TotalUnits(vis, ch) ==
    Balances(vis, ch)[1] + Balances(vis, ch)[2]
        + Balances(vis, ch)[3] + Balances(vis, ch)[4]

\* C36: a resolve cycle takes from the pool of an RC at most as many units
\* as it applies actions of that RC, and adds none; an RC none of whose
\* actions is applied (all were skipped for an ability block or a visit
\* block) keeps its pool as it was; the cycle adds and removes no block and
\* leaves every phase reading as it was.
C36_CycleFrame ==
    [][ResolveCycle
       => /\ \A ch \in Channels :
                /\ TotalUnits(visits', ch) <= TotalUnits(visits, ch)
                /\ TotalUnits(visits, ch) - TotalUnits(visits', ch)
                      <= AppliedAt(processed', ch)
                /\ AppliedAt(processed', ch) = 0
                      => /\ PoolOf(visits', ch) = PoolOf(visits, ch)
                         /\ ch \in DOMAIN visits' <=> ch \in DOMAIN visits
          /\ \A i \in DOMAIN skipped' :
                skipped'[i][2] \in {"ability_blocked", "visit_blocked"}
          /\ roleblocks' = roleblocks
          /\ current_phase' = current_phase
          /\ phases' = phases
          /\ visit_phase' = visit_phase]_vars

\* a cycle has just skipped every action of c2, whose pool still holds its
\* two visits, and applied an action of c1
C36_Witness ==
    /\ reply.msg = "Processed"
    /\ Len(processed) >= 1
    /\ \E i \in DOMAIN skipped : skipped[i][1].channel_id = "c2"
    /\ AppliedAt(processed, "c2") = 0
    /\ TotalUnits(visits, "c2") = 2
    /\ roleblocks # Empty

----------------------------------------------------------------------------
(* Claims on the stored categories *)

\* the canonical categories
ClosedCategorySet ==
    {"Manipulation", "Protection", "Blocking", "Curing", "Information",
     "Economy", "Transport", "Communication", "Lethal", "Other"}

\* C37: the category of every stored ability assignment is one of the ten
\* canonical categories, whatever assignments and updates were made.
C37_CategoryClosedSet ==
    \A rc \in DOMAIN abilities :
        \A key \in DOMAIN abilities[rc] :
            abilities[rc][key] \in ClosedCategorySet

----------------------------------------------------------------------------
(* Claims on the tracked actions *)

\* C38: the status of a tracked action only goes from pending to done or
\* from pending to cancelled, and a status of done or cancelled never
\* changes again, whatever buttons are clicked under the message of the
\* player and under the message of the admins and however the handlers of
\* the clicks interleave; the ids of the actions are distinct and grow with
\* the order of creation.
C38_StatusIsFinal ==
    [][/\ \A aid \in DOMAIN actions :
             /\ aid \in DOMAIN actions'
             /\ actions[aid] \in {"done", "cancelled"}
                   => actions'[aid] = actions[aid]
             /\ actions'[aid] \in {"pending", "done", "cancelled"}
       /\ \A aid \in DOMAIN actions' \ DOMAIN actions :
             /\ actions'[aid] = "pending"
             /\ \A old \in DOMAIN actions : old < aid
             /\ aid < next_action_id']_vars

----------------------------------------------------------------------------
(* Claims on the visits the opened knocks cost *)

\* the ticket is pending and the player posted it (no overseer did)
OwnTicket(ref) ==
    ref \in DOMAIN pending /\ ~pending[ref].initiator_is_overseer

\* C39: a reply "open" to a ticket a player posted lowers the counter of
\* the kind of the phase by exactly 1, from a value above zero, when the
\* knock is opened, and lowers no counter when it is not opened; an open
\* that has taken a visit moves the player to the target, so that an open
\* that fails costs nothing and the opens that succeed never outnumber the
\* visits the player held, however many tickets are pending.
C39_OpensNeverOverspend ==
    [][\A i \in 1..MaxReplies :
        /\ \A ref \in 1..MaxKnocks :
              (OpenStart(i, ref) /\ OwnTicket(ref))
              => LET k == _key(pending[ref].guild, pending[ref].player_id)
                     kind == visit_phase[pending[ref].guild]
                 IN  IF tasks'[i].pc = "announce_opened"
                     THEN /\ Counter(counts, k, kind) > 0
                          /\ Counter(counts', k, kind) = Counter(counts, k, kind) - 1
                          /\ OnlyCounterChanged(k, kind)
                     ELSE NoCounterChanged
        /\ \A ok_move \in BOOLEAN :
              (OpenMove(i, ok_move) /\ OwnTicket(tasks[i].ref))
              => /\ manor'[tasks[i].player_id] = tasks[i].target_id
                 /\ NoCounterChanged]_vars

----------------------------------------------------------------------------
(* Claims on the snapshot a queued action carries *)

\* what the loop of a cycle started after the step would leave
CycleAfter ==
    RunCycle(roleblocks',
             [visits |-> visits', processed |-> <<>>, skipped |-> <<>>],
             sorted(pending_abilities'))

\* C40: the category and the team of a queued action are the ones read at
\* submission: a .team, an .updateability or a .removeability given after
\* the submission leaves every queued entry as it is, and with it the order
\* in which the next resolve cycle takes the actions and the actions that
\* cycle applies and skips.
C40_SnapshotAtSubmission ==
    [][(\/ \E rc \in Channels, team_name \in {"Sublime", "dark"} :
             set_team(rc, team_name)
        \/ \E rc \in Channels, key \in {Key1, KeyA1} :
             update_ability(rc, key, "lethal")
        \/ \E rc \in Channels, key \in {Key1, KeyA1} : remove_ability(rc, key))
       => /\ pending_abilities' = pending_abilities
          /\ sorted(pending_abilities') = sorted(pending_abilities)
          /\ CycleAfter.processed = CycleOn(pending_abilities).processed
          /\ CycleAfter.skipped = CycleOn(pending_abilities).skipped]_vars

\* a cycle has just applied an action whose ability was removed and whose
\* RC changed its team after the submission
C40_Witness ==
    /\ reply.msg = "Processed"
    /\ \E i \in DOMAIN processed :
          /\ processed[i].channel_id = "c1"
          /\ processed[i].ability \notin DOMAIN AbilitiesOf(abilities, "c1")
          /\ processed[i].team # TeamOf(teams, "c1")
          /\ processed[i].category = "Lethal"

====
